---- MODULE Spec2Model ----
(***************************************************************************)
(* A model of typed-latex: the generic lexer (lexer.ts), the parse-tree    *)
(* builder and parser engine (parser.ts), the LaTeX grammar and parser     *)
(* (latex.ts) and the math-mode grammar and Pratt parser (mathmode.ts).    *)
(*                                                                         *)
(* Strings are sequences of one-character strings; a JS index i is the     *)
(* TLA+ position i + 1.  Enum members are their ordinals, as at run time.  *)
(***************************************************************************)
EXTENDS Integers, Sequences, FiniteSets, TLC

\* The longest input is the concatenation of MaxChunks pieces of a vocabulary.
MaxChunks == 3

\* the same bound for the inputs of the termination check
LiveChunks == 2

------------------------------------------------------------------------------
(* Values *)

\* JS null where a token or node is expected (Maybe<T>)
Null == [null |-> TRUE]

IsNull(x) == "null" \in DOMAIN x

\* tokenData: null of regex-matched tokens (a command's name is never empty)
NullData == <<>>

NoExc == [name |-> "none", what |-> "", row |-> 0, col |-> 0]

Throw(name, what, row, col) == [name |-> name, what |-> what, row |-> row, col |-> col]

RECURSIVE Flatten(_)
Flatten(ss) == IF ss = <<>> THEN <<>> ELSE Head(ss) \o Flatten(Tail(ss))

------------------------------------------------------------------------------
(* util.ts *)

Letters ==
    {"a", "b", "c", "d", "e", "f", "g", "h", "i", "j", "k", "l", "m",
     "n", "o", "p", "q", "r", "s", "t", "u", "v", "w", "x", "y", "z",
     "A", "B", "C", "D", "E", "F", "G", "H", "I", "J", "K", "L", "M",
     "N", "O", "P", "Q", "R", "S", "T", "U", "V", "W", "X", "Y", "Z"}

alphabetic(c) == c \in Letters

------------------------------------------------------------------------------
(* Token grammars: the enums and the matcher tables *)

LatexTokenType ==
    <<"LineBreak", "Whitespace", "LineComment", "LeftCurly", "RightCurly",
      "LeftBracket", "RightBracket", "LeftParen", "RightParen", "Comma",
      "Pipe", "Eq", "Word", "Dollar", "Command">>

MathTokenType ==
    <<"LineBreak", "Whitespace", "LeftCurly", "RightCurly", "LeftBracket",
      "RightBracket", "LeftParen", "RightParen", "Comma", "Pipe", "Ampersand",
      "Eq", "Plus", "Minus", "Asterick", "LeftAngle", "RightAngle",
      "Underscore", "Caret", "Number", "Symbol", "Command">>

\* the run-time value of an enum member: its zero-based ordinal
EnumOrd(enum, name) == (CHOOSE i \in 1..Len(enum) : enum[i] = name) - 1

LT(name) == EnumOrd(LatexTokenType, name)

MT(name) == EnumOrd(MathTokenType, name)

\* character classes of the regular expressions
CrLf == {"\n", "\r"}

\* \s restricted to ASCII
SpaceChars == {" ", "\t", "\n", "\r"}

\* [^\S\r\n]: what is neither a non-space character nor CR nor LF
HorizontalSpace == SpaceChars \ CrLf

Digits == {"0", "1", "2", "3", "4", "5", "6", "7", "8", "9"}

WordExcluded_AndLetterA ==
    SpaceChars \cup {"\\", "%", "{", "}", ",", "$", "[", "]", "(", ")", "=", "|", "a"}

WordExcluded ==
    SpaceChars \cup {"\\", "%", "{", "}", ",", "$", "[", "]", "(", ")", "=", "|"}

\* regular expressions as data: a run of a class (+), of its complement,
\* a literal, a literal followed by a run (*), a literal with an optional repeat
RePlus(set) == [re |-> "plus", set |-> set, lit |-> <<>>]

ReNotPlus(set) == [re |-> "notplus", set |-> set, lit |-> <<>>]

ReLit(lit) == [re |-> "lit", set |-> {}, lit |-> lit]

ReLitNotStar(lit, set) == [re |-> "litnotstar", set |-> set, lit |-> lit]

ReLitOpt(lit) == [re |-> "litopt", set |-> {}, lit |-> lit]

Fn(name) == [re |-> name, set |-> {}, lit |-> <<>>]

LatexLexFns ==
    << RePlus(CrLf),                    \* LineBreak   /^[\r\n]+/
       RePlus(HorizontalSpace),         \* Whitespace  /^[^\S\r\n]+/
       ReLitNotStar(<<"%">>, CrLf),     \* LineComment /^%[^\r\n]*/
       ReLit(<<"{">>), ReLit(<<"}">>), ReLit(<<"[">>), ReLit(<<"]">>),
       ReLit(<<"(">>), ReLit(<<")">>), ReLit(<<",">>), ReLit(<<"|">>),
       ReLit(<<"=">>),
       ReNotPlus(WordExcluded),         \* Word
       ReLitOpt(<<"$">>),               \* Dollar      /^\$\$?/
       Fn("lexCommand") >>

MathLexFns ==
    << ReLit(<<"/", "/">>),             \* LineBreak   /^\/\//
       RePlus(HorizontalSpace),         \* Whitespace  /^[^\S\r\n]+/
       ReLit(<<"{">>), ReLit(<<"}">>), ReLit(<<"[">>), ReLit(<<"]">>),
       ReLit(<<"(">>), ReLit(<<")">>), ReLit(<<",">>), ReLit(<<"|">>),
       ReLit(<<"&">>), ReLit(<<"=">>), ReLit(<<"+">>), ReLit(<<"-">>),
       ReLit(<<"*">>), ReLit(<<"<">>), ReLit(<<">">>), ReLit(<<"_">>),
       ReLit(<<"^">>),
       RePlus(Digits),                  \* Number      /^[0-9]+/
       Fn("lexSymbol"),
       Fn("lexCommand") >>

------------------------------------------------------------------------------
(* lexer.ts: the lexer engine *)

VARIABLES
    grammar,    \* "latex" (LatexLexer, LatexParser) or "math" (MathLexer, MathParser)
    source,     \* Lexer.source
    index,      \* Lexer.index
    offset,     \* Lexer.offset
    tokens,     \* the array tokenize() fills, then Parser.tokens
    idx,        \* Parser.idx
    builder,    \* Parser.builder: [parents, children]
    ctl,        \* the parser's call stack: the code still to run, innermost first
    status,     \* "lexing", "tokenized", "parsing", "returned" or "threw"
    exc,        \* the exception thrown, NoExc if none
    ret,        \* the value the last expression() call returned (MathParser)
    root        \* what parse() returned

vars == <<grammar, source, index, offset, tokens, idx, builder, ctl, status, exc, ret, root>>

lexFns == IF grammar = "latex" THEN LatexLexFns ELSE MathLexFns

\* the length of the longest run of characters of src from JS index i on that
\* are in set (neg = FALSE) or not in set (neg = TRUE)
RECURSIVE RunLen(_, _, _, _)
RunLen(src, i, set, neg) ==
    IF i < Len(src) /\ ((src[i + 1] \in set) # neg)
    THEN 1 + RunLen(src, i + 1, set, neg)
    ELSE 0

StartsWith(src, i, lit) ==
    /\ i + Len(lit) <= Len(src)
    /\ SubSeq(src, i + 1, i + Len(lit)) = lit

\* lexFn.exec(source.slice(index)): the length of match[0], -1 for a null match
RegexExec(re, src, i) ==
    CASE re.re = "plus" ->
           IF RunLen(src, i, re.set, FALSE) > 0 THEN RunLen(src, i, re.set, FALSE) ELSE -1
      [] re.re = "notplus" ->
           IF RunLen(src, i, re.set, TRUE) > 0 THEN RunLen(src, i, re.set, TRUE) ELSE -1
      [] re.re = "lit" ->
           IF StartsWith(src, i, re.lit) THEN Len(re.lit) ELSE -1
      [] re.re = "litnotstar" ->
           IF StartsWith(src, i, re.lit)
           THEN Len(re.lit) + RunLen(src, i + Len(re.lit), re.set, TRUE)
           ELSE -1
      [] re.re = "litopt" ->
           IF StartsWith(src, i, re.lit)
           THEN (IF StartsWith(src, i + Len(re.lit), re.lit) THEN 2 * Len(re.lit) ELSE Len(re.lit))
           ELSE -1

Token(type, data, src, off) ==
    [type |-> type, tokenData |-> data, source |-> src, offset |-> off]

\* what a matcher or nextToken hands back: the token (Null for no match), the
\* lexer's index and offset afterwards, and the exception if it threw
LexResult(tok, i, off, e) == [token |-> tok, index |-> i, offset |-> off, exc |-> e]

lexCommand_NoMatchAtEof(src, i, off) ==
    IF src[i + 1] = "\\" /\ Len(src) > i + 1
    THEN LET c == src[i + 2] IN
         IF ~alphabetic(c)
         THEN LexResult(Token(LT("Command"), <<c>>, SubSeq(src, i + 1, i + 2), off),
                        i + 2, off + 2, NoExc)
         ELSE LET n == RunLen(src, i + 1, Letters, FALSE) IN
              LexResult(Token(LT("Command"), SubSeq(src, i + 2, i + 1 + n),
                              SubSeq(src, i + 1, i + 1 + n), off),
                        i + 1 + n, off + 1 + n, NoExc)
    ELSE LexResult(Null, i, off, NoExc)

lexCommand_OneCharacter(src, i, off) ==
    IF src[i + 1] = "\\"
    THEN IF Len(src) = i + 1
         THEN LexResult(Null, i, off, Throw("LexError", "Unexpected EOF", off, 0))
         ELSE LexResult(Token(LT("Command"), <<src[i + 2]>>, SubSeq(src, i + 1, i + 2), off),
                        i + 2, off + 2, NoExc)
    ELSE LexResult(Null, i, off, NoExc)

\* latex.ts lexCommand; TokenType.Command is the LaTeX enum's member there
lexCommand(src, i, off) ==
    IF src[i + 1] = "\\"
    THEN IF Len(src) = i + 1
         THEN LexResult(Null, i, off, Throw("LexError", "Unexpected EOF", off, 0))
         ELSE LET c == src[i + 2] IN
              IF ~alphabetic(c)
              THEN LexResult(Token(LT("Command"), <<c>>, SubSeq(src, i + 1, i + 2), off),
                             i + 2, off + 2, NoExc)
              ELSE LET n == RunLen(src, i + 1, Letters, FALSE) IN
                   IF n = 0
                   THEN LexResult(Null, i, off, Throw("LexError", "Unexpected \\", off, 0))
                   ELSE LexResult(Token(LT("Command"), SubSeq(src, i + 2, i + 1 + n),
                                        SubSeq(src, i + 1, i + 1 + n), off),
                                  i + 1 + n, off + 1 + n, NoExc)
    ELSE LexResult(Null, i, off, NoExc)

lexSymbol_OffsetNotAdvanced(src, i, off) ==
    LET c == src[i + 1] IN
    IF alphabetic(c)
    THEN LexResult(Token(MT("Symbol"), <<c>>, SubSeq(src, i + 1, i + 1), off),
                   i + 1, off, NoExc)
    ELSE LexResult(Null, i, off, NoExc)

\* mathmode.ts lexSymbol
lexSymbol(src, i, off) ==
    LET c == src[i + 1] IN
    IF alphabetic(c)
    THEN LexResult(Token(MT("Symbol"), <<c>>, SubSeq(src, i + 1, i + 1), off),
                   i + 1, off + 1, NoExc)
    ELSE LexResult(Null, i, off, NoExc)

\* the token of nextToken's regular-expression branch
RegexToken_SliceByLength(k, src, i, off, captured) ==
    Token(k, NullData, SubSeq(src, i + 1, captured), off)

RegexToken(k, src, i, off, captured) ==
    Token(k, NullData, SubSeq(src, i + 1, i + captured), off)

\* the body of nextToken's for loop from matcher k (an ordinal) on
RECURSIVE TryLexFns(_, _, _, _, _)
TryLexFns(fns, k, src, i, off) ==
    IF k >= Len(fns)
    THEN LexResult(Null, i, off, NoExc)
    ELSE LET lexFn == fns[k + 1] IN
         IF lexFn.re \notin {"lexCommand", "lexSymbol"}
         THEN LET captured == RegexExec(lexFn, src, i) IN
              IF captured = -1
              THEN TryLexFns(fns, k + 1, src, i, off)
              ELSE LexResult(RegexToken(k, src, i, off, captured),
                             i + captured, off + captured, NoExc)
         ELSE LET r == IF lexFn.re = "lexCommand"
                       THEN lexCommand(src, i, off)
                       ELSE lexSymbol(src, i, off) IN
              IF r.exc.name # "none" \/ ~IsNull(r.token)
              THEN r
              ELSE TryLexFns(fns, k + 1, src, i, off)

nextToken_SkipsUnmatched(fns, src, i, off) ==
    IF i = Len(src)
    THEN LexResult(Null, i, off, NoExc)
    ELSE LET r == TryLexFns(fns, 0, src, i, off) IN
         IF r.exc = NoExc /\ IsNull(r.token)
         THEN LexResult(Null, i + 1, off + 1, NoExc)
         ELSE r

nextToken(fns, src, i, off) ==
    IF i = Len(src)
    THEN LexResult(Null, i, off, NoExc)
    ELSE TryLexFns(fns, 0, src, i, off)

\* source.split("\n")
RECURSIVE Split(_)
Split(src) ==
    LET n == RunLen(src, 0, {"\n"}, TRUE) IN
    IF n = Len(src)
    THEN <<src>>
    ELSE <<SubSeq(src, 1, n)>> \o Split(SubSeq(src, n + 2, Len(src)))

RECURSIVE LocateFrom_TerminatorOnNextLine(_, _, _, _)
LocateFrom_TerminatorOnNextLine(lines, off, row, currOffset) ==
    IF currOffset <= off
    THEN IF row >= Len(lines)
         THEN [row |-> 0, col |-> 0, exc |-> Throw("TypeError", "currLine is undefined", 0, 0)]
         ELSE LET currLine == lines[row + 1] IN
              IF currOffset + Len(currLine) > off
              THEN [row |-> row + 1, col |-> off - currOffset + 1, exc |-> NoExc]
              ELSE LocateFrom_TerminatorOnNextLine(lines, off, row + 1,
                                                   currOffset + Len(currLine) + 1)
    ELSE [row |-> 0, col |-> 0, exc |-> Throw("AssertionError", "", 0, 0)]

\* the while loop of getSourceLocation from (row, currOffset) on
RECURSIVE LocateFrom(_, _, _, _)
LocateFrom(lines, off, row, currOffset) ==
    IF currOffset <= off
    THEN IF row >= Len(lines)
         THEN [row |-> 0, col |-> 0, exc |-> Throw("TypeError", "currLine is undefined", 0, 0)]
         ELSE LET currLine == lines[row + 1] IN
              IF currOffset + Len(currLine) + 1 > off
              THEN [row |-> row + 1, col |-> off - currOffset + 1, exc |-> NoExc]
              ELSE LocateFrom(lines, off, row + 1, currOffset + Len(currLine) + 1)
    ELSE [row |-> 0, col |-> 0, exc |-> Throw("AssertionError", "", 0, 0)]

getSourceLocation(src, off) ==
    IF off < 0 \/ off >= Len(src)
    THEN [row |-> 0, col |-> 0, exc |-> Throw("LexError", "Offset out of bounds", off, Len(src))]
    ELSE LocateFrom(Split(src), off, 0, 0)

------------------------------------------------------------------------------
(* parser.ts: the tree builder and the parser engine *)

\* a token carries tokenData, a node does not (tokenData !== undefined)
isToken(node) == "tokenData" \in DOMAIN node

isNode(node) == ~isToken(node)

Node(kind, children) == [kind |-> kind, syntaxData |-> NullData, children |-> children]

\* parents and children are the builder's fields; starts and ends record how
\* many calls of start_node and of end_node have returned
NewBuilder == [parents |-> <<>>, children |-> <<>>, starts |-> 0, ends |-> 0]

start_node(b, kind) ==
    [b EXCEPT !.parents = Append(@, [node |-> Node(kind, <<>>), child_idx |-> Len(b.children)]),
              !.starts = @ + 1]

end_node_KeepsPending(b) ==
    IF b.parents = <<>>
    THEN [builder |-> b, exc |-> Throw("AssertionError", "Unmatched end_node()", 0, 0)]
    ELSE LET result == b.parents[Len(b.parents)]
             parent == [result.node EXCEPT
                          !.children = SubSeq(b.children, result.child_idx + 1, Len(b.children))]
         IN [builder |-> [b EXCEPT
                            !.parents = SubSeq(b.parents, 1, Len(b.parents) - 1),
                            !.children = Append(b.children, parent),
                            !.ends = @ + 1],
             exc |-> NoExc]

\* [builder, exc]: the builder afterwards and the exception if it threw
end_node(b) ==
    IF b.parents = <<>>
    THEN [builder |-> b, exc |-> Throw("AssertionError", "Unmatched end_node()", 0, 0)]
    ELSE LET result == b.parents[Len(b.parents)]
             parent == [result.node EXCEPT
                          !.children = SubSeq(b.children, result.child_idx + 1, Len(b.children))]
         IN [builder |-> [b EXCEPT
                            !.parents = SubSeq(b.parents, 1, Len(b.parents) - 1),
                            !.children = Append(SubSeq(b.children, 1, result.child_idx), parent),
                            !.ends = @ + 1],
             exc |-> NoExc]

push(b, item) == [b EXCEPT !.children = Append(@, item)]

finish_Unchecked(b) ==
    [value |-> IF b.children = <<>> THEN Null ELSE b.children[1], exc |-> NoExc]

\* [value, exc]; children[0] of an empty array is undefined, here Null
finish(b) ==
    IF b.parents # <<>>
    THEN [value |-> Null, exc |-> Throw("AssertionError", "unmatched start_node", 0, 0)]
    ELSE [value |-> IF b.children = <<>> THEN Null ELSE b.children[1], exc |-> NoExc]

RECURSIVE concatParseTree(_)
concatParseTree(node) ==
    IF isToken(node)
    THEN node.source
    ELSE Flatten([i \in 1..Len(node.children) |-> concatParseTree(node.children[i])])

concatParseTrees(nodes) ==
    Flatten([i \in 1..Len(nodes) |-> concatParseTree(nodes[i])])

\* the index (JS, -1 if none) of the first element of arr that satisfies Test
FirstIndex(arr, Test(_)) ==
    IF \E i \in 1..Len(arr) : Test(arr[i])
    THEN (CHOOSE i \in 1..Len(arr) : Test(arr[i]) /\ \A j \in 1..(i - 1) : ~Test(arr[j])) - 1
    ELSE -1

findFirstToken(arr, type) ==
    LET i == FirstIndex(arr, LAMBDA e : isToken(e) /\ e.type = type) IN
    IF i = -1 THEN Null ELSE arr[i + 1]

findFirstNode(arr, kind) ==
    LET i == FirstIndex(arr, LAMBDA e : isNode(e) /\ e.kind = kind) IN
    IF i = -1 THEN Null ELSE arr[i + 1]

\* The running parser, as the methods below pass it on: the cursor, the builder
\* and the exception thrown so far.
Raise(p, e) == [p EXCEPT !.exc = e]

Threw(p) == p.exc.name # "none"

\* the next statement runs only if the ones before it did not throw
Bind(p, Op(_)) == IF Threw(p) THEN p ELSE Op(p)

TypeErrorOnNull == Throw("TypeError", "null is not an object", 0, 0)

hasNext(p) == p.idx < Len(tokens)

peek(p) == IF p.idx < Len(tokens) THEN tokens[p.idx + 1] ELSE Null

\* token.offset of peek()!, then getSourceLocation: p with the exception, if any
Located(p) ==
    IF IsNull(peek(p))
    THEN Raise(p, TypeErrorOnNull)
    ELSE Raise(p, getSourceLocation(source, peek(p).offset).exc)

RowCol_OfTokenIndex(p) == getSourceLocation(source, p.idx)

RowCol(p) == getSourceLocation(source, peek(p).offset)

expect(p, type) ==
    Bind(Located(p), LAMBDA q :
        IF peek(q).type # type
        THEN Raise(q, Throw("ParseError", "Expected token", RowCol(q).row, RowCol(q).col))
        ELSE [q EXCEPT !.builder = push(q.builder, peek(q)), !.idx = q.idx + 1])

expectIgnore_Pushes(p, type) == expect(p, type)

expectIgnore(p, type) ==
    Bind(Located(p), LAMBDA q :
        IF peek(q).type # type
        THEN Raise(q, Throw("ParseError", "Expected token", RowCol(q).row, RowCol(q).col))
        ELSE [q EXCEPT !.idx = q.idx + 1])

expect2(p, type1, type2) ==
    Bind(Located(p), LAMBDA q :
        IF peek(q).type # type1 /\ peek(q).type # type2
        THEN Raise(q, Throw("ParseError", "Expected token", RowCol(q).row, RowCol(q).col))
        ELSE [q EXCEPT !.builder = push(q.builder, peek(q)), !.idx = q.idx + 1])

ignore(p) == [p EXCEPT !.idx = p.idx + 1]

consume_NoPush(p) == ignore(p)

consume(p) == [p EXCEPT !.builder = push(p.builder, peek(p)), !.idx = p.idx + 1]

open_node_Twice(p, kind) ==
    [p EXCEPT !.builder = start_node(start_node(p.builder, kind), kind)]

\* this.builder.start_node(kind) and this.builder.end_node() in a parser method
open_node(p, kind) == [p EXCEPT !.builder = start_node(p.builder, kind)]

close_node(p) ==
    [p EXCEPT !.builder = end_node(p.builder).builder, !.exc = end_node(p.builder).exc]

------------------------------------------------------------------------------
(* latex.ts: the LaTeX structural parser *)

LatexSyntaxKind ==
    <<"Root", "Begin", "End", "Environment", "Formula", "Equation", "CurlyGroup",
      "BracketGroup", "MixedGroup", "Command", "Text">>

LK(name) == EnumOrd(LatexSyntaxKind, name)

isText(type) ==
    type \in {LT("Word"), LT("LineBreak"), LT("LineComment"), LT("Whitespace"),
              LT("Comma"), LT("Pipe")}

isCommand(token, name) == token.type = LT("Command") /\ token.tokenData = name

isTrivia(type) == type \in {LT("LineBreak"), LT("LineComment"), LT("Whitespace")}

\* a frame of the call stack: the method (or the rest of a method) still to run,
\* with the locals it needs
\* (entry is kept for the frames of expression(): the builder's parents and
\* children as they were when that call of expression() began)
Frame(op) == [op |-> op, token |-> Null, precedence |-> 0, lhs |-> Null, entry |-> Null]

\* what a method that calls others does up to its first call: the parser so far
\* and the frames it puts on the stack
Calls(p, frames) == [p |-> p, call |-> frames]

expectCommand(p, name) ==
    Bind(Located(p), LAMBDA q :
        IF ~isCommand(peek(q), name)
        THEN Raise(q, Throw("ParseError", "Expected command", RowCol(q).row, RowCol(q).col))
        ELSE [q EXCEPT !.builder = push(q.builder, peek(q)), !.idx = q.idx + 1])

RECURSIVE trivia(_)
trivia(p) ==
    IF hasNext(p) /\ isTrivia(peek(p).type) THEN trivia(consume(p)) ELSE p

\* the while loop of text()
RECURSIVE TextLoop(_)
TextLoop(p) ==
    IF hasNext(p) /\ isText(peek(p).type) THEN TextLoop(consume(p)) ELSE p

text_ConsumesNothing(p) == p

text(p) == close_node(TextLoop(consume(open_node(p, LK("Text")))))

content(p) ==
    LET token == peek(p) IN
    IF Threw(Located(p))
    THEN Calls(Located(p), <<>>)
    ELSE CASE token.type \in {LT("Whitespace"), LT("LineBreak"), LT("LineComment")} ->
                Calls(consume(p), <<>>)
           [] token.type \in {LT("RightCurly"), LT("RightParen"), LT("RightBracket")} ->
                Calls(Raise(p, Throw("ParseError", "Unmatched punctuation",
                                     RowCol(p).row, RowCol(p).col)), <<>>)
           [] token.type = LT("LeftCurly") -> Calls(p, <<Frame("curly_group")>>)
           [] token.type \in {LT("LeftParen"), LT("LeftBracket")} ->
                Calls(p, <<Frame("mixed_group")>>)
           [] token.type = LT("Dollar") -> Calls(p, <<Frame("formula")>>)
           [] token.type = LT("Word") -> Calls(text(p), <<>>)
           [] token.type \in {LT("Eq"), LT("Pipe"), LT("Comma")} -> Calls(consume(p), <<>>)
           [] token.type = LT("Command") ->
                IF token.tokenData = <<"b", "e", "g", "i", "n">>
                THEN Calls(p, <<Frame("environment")>>)
                ELSE IF token.tokenData = <<"[">>
                THEN Calls(p, <<Frame("equation")>>)
                ELSE Calls(p, <<Frame("command")>>)
           [] OTHER -> Calls(Raise(p, Throw("ParseError", "Unimplemented", 0, 0)), <<>>)

\* The parser as the current step finds it
Cur == [idx |-> idx, builder |-> builder, exc |-> NoExc]

At(op) == status = "parsing" /\ ctl # <<>> /\ Head(ctl).op = op

\* the step ends with parser p and call stack c, or with p's exception thrown
\* out of parse()
GotoRet(p, c, value) ==
    /\ idx' = p.idx
    /\ builder' = p.builder
    /\ exc' = p.exc
    /\ ctl' = IF Threw(p) THEN <<>> ELSE c
    /\ status' = IF Threw(p) THEN "threw" ELSE "parsing"
    /\ ret' = IF Threw(p) THEN ret ELSE value
    /\ UNCHANGED <<grammar, source, index, offset, tokens, root>>

Goto(p, c) == GotoRet(p, c, ret)

\* a loop body that is one call of content()
GotoContent(p) == Goto(content(p).p, content(p).call \o ctl)

\* parse(): start_node(Root), then the loop
parse ==
    /\ At("parse")
    /\ Goto(open_node(Cur, LK("Root")), <<Frame("parse_loop")>> \o Tail(ctl))

\* parse(): one turn of the loop, or what follows it
parse_loop ==
    /\ At("parse_loop")
    /\ IF hasNext(Cur)
       THEN GotoContent(Cur)
       ELSE LET p == close_node(Cur)
                r == finish(p.builder)
                q == IF Threw(p) THEN p
                     ELSE IF r.exc.name # "none" THEN Raise(p, r.exc)
                     ELSE IF IsNull(r.value) THEN Raise(p, TypeErrorOnNull)
                     ELSE IF ~isNode(r.value) THEN Raise(p, Throw("AssertionError", "", 0, 0))
                     ELSE p
            IN /\ idx' = q.idx
               /\ builder' = q.builder
               /\ exc' = q.exc
               /\ ctl' = <<>>
               /\ status' = IF Threw(q) THEN "threw" ELSE "returned"
               /\ root' = IF Threw(q) THEN root ELSE r.value
               /\ UNCHANGED <<grammar, source, index, offset, tokens, ret>>

curly_group ==
    /\ At("curly_group")
    /\ Goto(expect(open_node(Cur, LK("CurlyGroup")), LT("LeftCurly")),
            <<Frame("curly_loop")>> \o Tail(ctl))

curly_loop ==
    /\ At("curly_loop")
    /\ IF hasNext(Cur) /\ peek(Cur).type # LT("RightCurly")
       THEN GotoContent(Cur)
       ELSE Goto(Bind(expect(Cur, LT("RightCurly")), close_node), Tail(ctl))

bracket_group ==
    /\ At("bracket_group")
    /\ Goto(expect(open_node(Cur, LK("BracketGroup")), LT("LeftBracket")),
            <<Frame("bracket_loop")>> \o Tail(ctl))

bracket_loop ==
    /\ At("bracket_loop")
    /\ IF /\ hasNext(Cur)
          /\ ~(\/ peek(Cur).type = LT("RightCurly")
               \/ peek(Cur).type = LT("RightBracket")
               \/ isCommand(peek(Cur), <<"e", "n", "d">>))
       THEN GotoContent(Cur)
       ELSE Goto(Bind(expect(Cur, LT("RightBracket")), close_node), Tail(ctl))

mixed_group ==
    /\ At("mixed_group")
    /\ Goto(expect2(open_node(Cur, LK("MixedGroup")), LT("LeftParen"), LT("LeftBracket")),
            <<Frame("mixed_loop")>> \o Tail(ctl))

mixed_loop ==
    /\ At("mixed_loop")
    /\ IF /\ hasNext(Cur)
          /\ ~(\/ peek(Cur).type = LT("RightCurly")
               \/ peek(Cur).type = LT("RightParen")
               \/ peek(Cur).type = LT("RightBracket")
               \/ isCommand(peek(Cur), <<"e", "n", "d">>))
       THEN GotoContent(Cur)
       ELSE Goto(Bind(expect2(Cur, LT("RightParen"), LT("RightBracket")), close_node),
                 Tail(ctl))

equation ==
    /\ At("equation")
    /\ Goto(consume(open_node(Cur, LK("Equation"))), <<Frame("equation_loop")>> \o Tail(ctl))

\* while (this.hasNext): the method itself, always truthy
equation_loop ==
    /\ At("equation_loop")
    /\ IF IsNull(peek(Cur))
       THEN Goto(Raise(Cur, TypeErrorOnNull), ctl)
       ELSE IF \/ peek(Cur).type = LT("RightCurly")
               \/ isCommand(peek(Cur), <<"e", "n", "d">>)
               \/ isCommand(peek(Cur), <<"]">>)
       THEN Goto(Bind(expectCommand(Cur, <<"]">>), close_node), Tail(ctl))
       ELSE GotoContent(Cur)

formula ==
    /\ At("formula")
    /\ Goto(consume(open_node(Cur, LK("Formula"))), <<Frame("formula_loop")>> \o Tail(ctl))

formula_loop ==
    /\ At("formula_loop")
    /\ IF IsNull(peek(Cur))
       THEN Goto(Raise(Cur, TypeErrorOnNull), ctl)
       ELSE IF \/ peek(Cur).type = LT("RightCurly")
               \/ peek(Cur).type = LT("Dollar")
               \/ isCommand(peek(Cur), <<"e", "n", "d">>)
       THEN Goto(Bind(expect(Cur, LT("Dollar")), close_node), Tail(ctl))
       ELSE GotoContent(Cur)

command ==
    /\ At("command")
    /\ Goto(consume(open_node(Cur, LK("Command"))), <<Frame("command_loop")>> \o Tail(ctl))

\* one turn of command()'s loop; a trivia token is consumed and ends the loop
command_loop ==
    /\ At("command_loop")
    /\ IF ~hasNext(Cur)
       THEN Goto(close_node(Cur), Tail(ctl))
       ELSE CASE peek(Cur).type \in {LT("Whitespace"), LT("LineBreak"), LT("LineComment")} ->
                   Goto(close_node(consume(Cur)), Tail(ctl))
              [] peek(Cur).type = LT("LeftCurly") ->
                   Goto(Cur, <<Frame("curly_group")>> \o ctl)
              [] peek(Cur).type \in {LT("LeftBracket"), LT("LeftParen")} ->
                   Goto(Cur, <<Frame("mixed_group")>> \o ctl)
              [] OTHER ->
                   Goto(Raise(Cur, Throw("ParseError", "Unimplemented", 0, 0)), ctl)

\* begin() up to its first group; token is read once, before the groups
begin ==
    /\ At("begin")
    /\ LET p == trivia(consume(open_node(Cur, LK("Begin"))))
           token == peek(p)
       IN IF IsNull(token)
          THEN Goto(Raise(p, TypeErrorOnNull), ctl)
          ELSE IF token.type = LT("LeftCurly")
          THEN Goto(p, <<Frame("curly_group"), [Frame("begin_bracket") EXCEPT !.token = token]>>
                       \o Tail(ctl))
          ELSE IF token.type = LT("LeftBracket")
          THEN Goto(p, <<Frame("bracket_group"), Frame("end_node")>> \o Tail(ctl))
          ELSE Goto(close_node(p), Tail(ctl))

\* begin() after its curly group: the second test of the same token
begin_bracket ==
    /\ At("begin_bracket")
    /\ IF Head(ctl).token.type = LT("LeftBracket")
       THEN Goto(Cur, <<Frame("bracket_group"), Frame("end_node")>> \o Tail(ctl))
       ELSE Goto(close_node(Cur), Tail(ctl))

end ==
    /\ At("end")
    /\ LET p == trivia(consume(open_node(Cur, LK("End"))))
           token == peek(p)
       IN IF IsNull(token)
          THEN Goto(Raise(p, TypeErrorOnNull), ctl)
          ELSE IF token.type = LT("LeftCurly")
          THEN Goto(p, <<Frame("curly_group"), Frame("end_node")>> \o Tail(ctl))
          ELSE Goto(close_node(p), Tail(ctl))

environment ==
    /\ At("environment")
    /\ Goto(open_node(Cur, LK("Environment")),
            <<Frame("begin"), Frame("environment_loop")>> \o Tail(ctl))

environment_loop ==
    /\ At("environment_loop")
    /\ IF /\ hasNext(Cur)
          /\ ~(peek(Cur).type = LT("RightCurly") \/ isCommand(peek(Cur), <<"e", "n", "d">>))
       THEN GotoContent(Cur)
       ELSE Goto(Cur, <<Frame("end"), Frame("end_node")>> \o Tail(ctl))

\* the this.builder.end_node() that ends begin(), end() and environment()
\* after their last call
end_node_last ==
    /\ At("end_node")
    /\ Goto(close_node(Cur), Tail(ctl))

------------------------------------------------------------------------------
(* mathmode.ts: the math-mode parser *)

MathSyntaxKind ==
    <<"Root", "BinOp", "Grouping", "Literal", "Symbol", "Equal", "Frac", "Command",
      "Expression">>

MK(name) == EnumOrd(MathSyntaxKind, name)

InfixOp ==
    <<"Plus", "Minus", "Times", "Le", "Ge", "Subscript", "Superscript", "In", "Union",
      "Intersection">>

IO(name) == EnumOrd(InfixOp, name)

isMathTrivia(type) == type \in {MT("LineBreak"), MT("Whitespace")}

\* -1 where the code fails assert(false)
matchingBrace(type) ==
    CASE type = MT("LeftParen") -> MT("RightParen")
      [] type = MT("LeftCurly") -> MT("RightCurly")
      [] type = MT("LeftBracket") -> MT("RightBracket")
      [] type = MT("RightParen") -> MT("LeftParen")
      [] type = MT("RightCurly") -> MT("LeftCurly")
      [] type = MT("RightBracket") -> MT("LeftBracket")
      [] OTHER -> -1

\* Maybe<InfixOp>: the operator's ordinal, -1 for null
tokenToInfixOp(token) ==
    CASE token.type = MT("Plus") -> IO("Plus")
      [] token.type = MT("Minus") -> IO("Minus")
      [] token.type = MT("Asterick") -> IO("Times")
      [] token.type = MT("LeftAngle") -> IO("Le")
      [] token.type = MT("RightAngle") -> IO("Ge")
      [] token.type = MT("Underscore") -> IO("Subscript")
      [] token.type = MT("Caret") -> IO("Superscript")
      [] token.type = MT("Command") ->
           CASE token.tokenData = <<"i", "n">> -> IO("In")
             [] token.tokenData = <<"c", "u", "p">> -> IO("Union")
             [] token.tokenData = <<"c", "a", "p">> -> IO("Intersection")
             [] OTHER -> -1
      [] OTHER -> -1

PRECEDENCE ==
    (IO("Union") :> <<78, 79>>) @@
    (IO("Intersection") :> <<80, 81>>) @@
    (IO("Le") :> <<90, 91>>) @@
    (IO("Ge") :> <<90, 91>>) @@
    (IO("Plus") :> <<100, 101>>) @@
    (IO("Minus") :> <<100, 101>>) @@
    (IO("Times") :> <<102, 103>>) @@
    (IO("Superscript") :> <<104, 105>>) @@
    (IO("Subscript") :> <<104, 105>>)

ExprFrame_AtZero(precedence) == [Frame("expression") EXCEPT !.precedence = 0]

ExprFrame(precedence) == [Frame("expression") EXCEPT !.precedence = precedence]

InfixFrame(lhs, precedence) ==
    [Frame("infix_loop") EXCEPT !.lhs = lhs, !.precedence = precedence]

\* a frame of the call of expression() that began with the builder as in b
Entered(frame, b) ==
    [frame EXCEPT !.entry = [parents |-> b.parents, children |-> b.children]]

PopChild_Keeps(p) == p

\* lhs = this.builder.children.pop()!
PopChild(p) ==
    [p EXCEPT !.builder.children = SubSeq(@, 1, Len(@) - 1)]

LastChild(p) ==
    IF p.builder.children = <<>> THEN Null ELSE p.builder.children[Len(p.builder.children)]

\* expression(precedence): the switch on the first token
expression ==
    /\ At("expression")
    /\ LET precedence == Head(ctl).precedence
           lhs == peek(Cur)
           loop == <<Entered(InfixFrame(lhs, precedence), builder)>> \o Tail(ctl)
       IN IF Threw(Located(Cur))
          THEN Goto(Located(Cur), ctl)
          ELSE CASE lhs.type \in {MT("LineBreak"), MT("Whitespace")} ->
                      Goto(consume(Cur), loop)
                 [] lhs.type \in {MT("RightCurly"), MT("RightParen"), MT("RightBracket")} ->
                      Goto(Raise(Cur, Throw("ParseError", "Unmatched grouping",
                                            RowCol(Cur).row, RowCol(Cur).col)), ctl)
                 [] lhs.type \in {MT("Eq"), MT("Plus"), MT("Minus"), MT("Asterick"),
                                  MT("LeftAngle"), MT("RightAngle"), MT("Underscore"),
                                  MT("Caret"), MT("Comma"), MT("Pipe"), MT("Ampersand")} ->
                      Goto(Raise(Cur, Throw("ParseError", "Unexpected punctuation",
                                            RowCol(Cur).row, RowCol(Cur).col)), ctl)
                 [] lhs.type \in {MT("LeftCurly"), MT("LeftParen"), MT("LeftBracket")} ->
                      Goto(ignore(open_node(Cur, MK("Grouping"))),
                           <<ExprFrame(0),
                             Entered([Frame("grouping_close") EXCEPT
                                          !.lhs = lhs, !.precedence = precedence],
                                     builder)>>
                           \o Tail(ctl))
                 [] lhs.type \in {MT("Number"), MT("Symbol")} ->
                      Goto(ignore(Cur), loop)
                 [] lhs.type = MT("Command") ->
                      Goto(Cur, loop)
                 [] OTHER ->
                      Goto(Raise(Cur, Throw("ParseError", "Unimplemented", 0, 0)), ctl)

\* the grouping case after its expression(0) returned
grouping_close ==
    /\ At("grouping_close")
    /\ LET p == Bind(close_node([Cur EXCEPT !.builder = push(Cur.builder, ret)]),
                     LAMBDA q : expectIgnore(q, matchingBrace(Head(ctl).lhs.type)))
       IN Goto(IF Threw(p) THEN p ELSE PopChild(p),
               <<[InfixFrame(LastChild(p), Head(ctl).precedence) EXCEPT
                    !.entry = Head(ctl).entry]>> \o Tail(ctl))

\* one turn of the while (true) loop of expression(), up to its recursive call
infix_loop ==
    /\ At("infix_loop")
    /\ LET lhs == Head(ctl).lhs
           precedence == Head(ctl).precedence
           infix == peek(Cur)
           infixOp == tokenToInfixOp(infix)
       IN IF IsNull(infix)
          THEN GotoRet(Cur, Tail(ctl), lhs)
          ELSE IF infixOp = -1
          THEN GotoRet(Cur, Tail(ctl), lhs)
          ELSE IF infixOp \notin DOMAIN PRECEDENCE
          THEN Goto(Raise(Cur, Throw("TypeError", "undefined is not iterable", 0, 0)), ctl)
          ELSE IF PRECEDENCE[infixOp][1] < precedence
          THEN GotoRet(Cur, Tail(ctl), lhs)
          ELSE Goto(ignore([Cur EXCEPT !.builder =
                              push(push(start_node(Cur.builder, MK("BinOp")), lhs), infix)]),
                    <<ExprFrame(PRECEDENCE[infixOp][2]),
                      [Frame("binop_close") EXCEPT !.precedence = precedence,
                                                   !.entry = Head(ctl).entry]>>
                    \o Tail(ctl))

\* the loop's turn after its expression(rightPrec) returned
binop_close ==
    /\ At("binop_close")
    /\ LET p == close_node([Cur EXCEPT !.builder = push(Cur.builder, ret)])
       IN Goto(IF Threw(p) THEN p ELSE PopChild(p),
               <<[InfixFrame(LastChild(p), Head(ctl).precedence) EXCEPT
                    !.entry = Head(ctl).entry]>> \o Tail(ctl))

\* MathParser.parse(): start_node(Root), then expression(0)
math_parse ==
    /\ At("math_parse")
    /\ Goto(open_node(Cur, MK("Root")), <<ExprFrame(0), Frame("math_parse_end")>> \o Tail(ctl))

\* MathParser.parse() after its expression(0) returned
math_parse_end ==
    /\ At("math_parse_end")
    /\ LET p == close_node([Cur EXCEPT !.builder = push(Cur.builder, ret)])
       IN /\ idx' = p.idx
          /\ builder' = p.builder
          /\ exc' = p.exc
          /\ ctl' = <<>>
          /\ status' = IF Threw(p) THEN "threw" ELSE "returned"
          /\ root' = IF Threw(p) THEN root ELSE p.builder.children[1]
          /\ UNCHANGED <<grammar, source, index, offset, tokens, ret>>

------------------------------------------------------------------------------
(* The typed layer over parse tree nodes (latex.ts, mathmode.ts) *)

\* a JS string where null is possible
Str(s) == [str |-> s]

\* what a constructor or accessor hands back: its value (Null for null) and the
\* exception if it threw
Value(v) == [value |-> v, exc |-> NoExc]

Fails(name) == [value |-> Null, exc |-> Throw(name, "", 0, 0)]

\* parser.ts intoNode: assert(isNode(node)); null has no tokenData to read
intoNode(node) ==
    IF IsNull(node) THEN Fails("TypeError")
    ELSE IF ~isNode(node) THEN Fails("AssertionError")
    ELSE Value(node)

Wrap_NoKindCheck(wrapper, kind, syntax) ==
    IF IsNull(syntax) THEN Fails("AssertionError")
    ELSE Value([wrapper |-> wrapper, syntax |-> syntax])

\* the constructors of Begin, End, Environment and BinOp: the wrapper holds the node
Wrap(wrapper, kind, syntax) ==
    IF IsNull(syntax) THEN Fails("AssertionError")
    ELSE IF isToken(syntax) \/ syntax.kind # kind THEN Fails("AssertionError")
    ELSE Value([wrapper |-> wrapper, syntax |-> syntax])

NewBegin(syntax) == Wrap("Begin", LK("Begin"), syntax)

NewEnd(syntax) == Wrap("End", LK("End"), syntax)

NewEnvironment(syntax) == Wrap("Environment", LK("Environment"), syntax)

\* Begin.name() and End.name()
name(w) ==
    LET tok == findFirstToken(w.syntax.children, LT("Word")) IN
    IF IsNull(tok) THEN Null ELSE Str(tok.source)

\* Environment.begin(): Maybe<Begin>
Environment_begin(w) ==
    LET node == findFirstNode(w.syntax.children, LK("Begin")) IN
    IF IsNull(node) THEN Null ELSE NewBegin(node).value

\* Environment.end(): Maybe<End>
Environment_end(w) ==
    LET node == findFirstNode(w.syntax.children, LK("End")) IN
    IF IsNull(node) THEN Null ELSE NewEnd(node).value

\* arr.slice(i, j) for 0 <= i
Slice(arr, i, j) == SubSeq(arr, i + 1, IF j < Len(arr) THEN j ELSE Len(arr))

bodyText_FromBegin(w) ==
    LET children == w.syntax.children
        i == FirstIndex(children, LAMBDA e : isNode(e) /\ e.kind = LK("Begin"))
        j == FirstIndex(children, LAMBDA e : isNode(e) /\ e.kind = LK("End"))
    IN IF i = -1 \/ j = -1
       THEN Null
       ELSE Str(concatParseTrees(Slice(children, i, j)))

\* Environment.bodyText(); indexOf finds the very nodes findFirstNode returned
bodyText(w) ==
    LET children == w.syntax.children
        i == FirstIndex(children, LAMBDA e : isNode(e) /\ e.kind = LK("Begin"))
        j == FirstIndex(children, LAMBDA e : isNode(e) /\ e.kind = LK("End"))
    IN IF i = -1 \/ j = -1
       THEN Null
       ELSE Str(concatParseTrees(Slice(children, i + 1, j)))

\* the constructors of Literal and Symbol only assert syntax !== null
NewLiteral(syntax) ==
    IF IsNull(syntax) THEN Fails("AssertionError")
    ELSE Value([wrapper |-> "Literal", syntax |-> syntax])

NewSymbol(syntax) ==
    IF IsNull(syntax) THEN Fails("AssertionError")
    ELSE Value([wrapper |-> "Symbol", syntax |-> syntax])

\* a JS number: an integer or NaN
Num(n) == [num |-> n]

NaN == [nan |-> TRUE]

DigitSeq == <<"0", "1", "2", "3", "4", "5", "6", "7", "8", "9">>

\* the integer a run of decimal digits denotes
RECURSIVE Decimal(_)
Decimal(ds) ==
    IF ds = <<>>
    THEN 0
    ELSE 10 * Decimal(SubSeq(ds, 1, Len(ds) - 1))
         + (CHOOSE d \in 0..9 : DigitSeq[d + 1] = ds[Len(ds)])

\* parseInt of a tokenData: null reads as the string "null", which has no
\* leading digit; a command name or symbol has a leading digit run or none
parseInt(data) ==
    LET n == RunLen(data, 0, Digits, FALSE) IN
    IF data = NullData \/ n = 0 THEN NaN ELSE Num(Decimal(SubSeq(data, 1, n)))

\* Literal.value()
Literal_value(w) == parseInt(w.syntax.tokenData)

NewBinOp(syntax) == Wrap("BinOp", MK("BinOp"), syntax)

\* BinOp.into: Maybe<BinOp>
BinOp_into(syntax) ==
    IF isToken(syntax) THEN Null
    ELSE IF /\ syntax.kind = MK("BinOp")
            /\ Len(syntax.children) = 3
            /\ isToken(syntax.children[2])
            /\ tokenToInfixOp(syntax.children[2]) # -1
    THEN NewBinOp(syntax).value
    ELSE Null

\* BinOp.op(): Maybe<InfixOp>, -1 for null
BinOp_op(w) == tokenToInfixOp(w.syntax.children[2])

\* BinOp.lhs() and BinOp.rhs() on the child at JS index k
Operand(w, k) ==
    LET child == w.syntax.children[k + 1] IN
    IF isToken(child) /\ child.type = MT("Number") THEN NewLiteral(child).value
    ELSE IF isToken(child) /\ child.type = MT("Symbol") THEN NewSymbol(child).value
    ELSE BinOp_into(child)

BinOp_lhs(w) == Operand(w, 0)

BinOp_rhs(w) == Operand(w, 2)

------------------------------------------------------------------------------
(* The inputs *)

LatexVocab ==
    { <<"\\", "b", "e", "g", "i", "n">>, <<"\\", "e", "n", "d">>, <<"{">>, <<"}">>,
      <<"[">>, <<"]">>, <<"a">>, <<" ">>, <<"$">>, <<"\\">> }

MathVocab ==
    { <<"a">>, <<"1">>, <<"+">>, <<"*">>, <<"^">>, <<"(">>, <<")">>, <<" ">>,
      <<"\\", "c", "u", "p">>, <<".">> }

\* the concatenations of at most n pieces of vocab
RECURSIVE Strings(_, _)
Strings(vocab, n) ==
    IF n = 0
    THEN {<<>>}
    ELSE Strings(vocab, n - 1)
         \cup {s \o c : s \in Strings(vocab, n - 1), c \in vocab}

\* "\begin{document}\nHello, world!\n\[1+1 = 2\]\n\end{document}"
DocumentText ==
    <<"\\", "b", "e", "g", "i", "n", "{", "d", "o", "c", "u", "m", "e", "n", "t", "}", "\n",
      "H", "e", "l", "l", "o", ",", " ", "w", "o", "r", "l", "d", "!", "\n",
      "\\", "[", "1", "+", "1", " ", "=", " ", "2", "\\", "]", "\n",
      "\\", "e", "n", "d", "{", "d", "o", "c", "u", "m", "e", "n", "t", "}">>

\* "\begin{name}[opt]\end{name}"
BeginOptText ==
    <<"\\", "b", "e", "g", "i", "n", "{", "n", "a", "m", "e", "}", "[", "o", "p", "t", "]",
      "\\", "e", "n", "d", "{", "n", "a", "m", "e", "}">>

\* "\begin{X} a \end{Y}"
BeginXEndYText ==
    <<"\\", "b", "e", "g", "i", "n", "{", "X", "}", " ", "a", " ",
      "\\", "e", "n", "d", "{", "Y", "}">>

\* "{", "(a", "$x", "\[x", "\begin{a} x", "\begin"
PrematureLatex ==
    { <<"{">>, <<"(", "a">>, <<"$", "x">>, <<"\\", "[", "x">>,
      <<"\\", "b", "e", "g", "i", "n", "{", "a", "}", " ", "x">>,
      <<"\\", "b", "e", "g", "i", "n">> }

\* "(1", "1 +"
PrematureMath == { <<"(", "1">>, <<"1", " ", "+">> }

\* "\n\na\n"
BlankLinesText == <<"\n", "\n", "a", "\n">>

\* "\foo {x}", "\foo{a} [b]" and "\foo \n{x}"
FooSpaceGroupText == <<"\\", "f", "o", "o", " ", "{", "x", "}">>

FooTwoGroupsText == <<"\\", "f", "o", "o", "{", "a", "}", " ", "[", "b", "]">>

FooTwoTriviaText == <<"\\", "f", "o", "o", " ", "\n", "{", "x", "}">>

\* "ab\n{)}"
UnmatchedText == <<"a", "b", "\n", "{", ")", "}">>

\* texts that run the loops of parse, curly_group, bracket_group, mixed_group,
\* environment, formula and equation, to their break or to an exception
LoopTexts ==
    { \* "$a$", "$a a$", "$a", "$a}", "${a}$"
      <<"$", "a", "$">>, <<"$", "a", " ", "a", "$">>, <<"$", "a">>, <<"$", "a", "}">>,
      <<"$", "{", "a", "}", "$">>,
      \* "\[a\]", "\[a", "\[a\end", "\[$a$\]"
      <<"\\", "[", "a", "\\", "]">>, <<"\\", "[", "a">>,
      <<"\\", "[", "a", "\\", "e", "n", "d">>,
      <<"\\", "[", "$", "a", "$", "\\", "]">>,
      \* "{a a}", "{a", "{[a]}", "[a]", "(a]", "[a", "[a}"
      <<"{", "a", " ", "a", "}">>, <<"{", "a">>, <<"{", "[", "a", "]", "}">>,
      <<"[", "a", "]">>, <<"(", "a", "]">>, <<"[", "a">>, <<"[", "a", "}">>,
      \* "\begin{a}[b]a\end{a}", "\begin[a]a\end", "\begin[a", "\begin{a}$a$\end{a} a"
      <<"\\", "b", "e", "g", "i", "n", "{", "a", "}", "[", "b", "]", "a",
        "\\", "e", "n", "d", "{", "a", "}">>,
      <<"\\", "b", "e", "g", "i", "n", "[", "a", "]", "a", "\\", "e", "n", "d">>,
      <<"\\", "b", "e", "g", "i", "n", "[", "a">>,
      <<"\\", "b", "e", "g", "i", "n", "{", "a", "}", "$", "a", "$",
        "\\", "e", "n", "d", "{", "a", "}", " ", "a">> }

LatexScenarios ==
    PrematureLatex \cup LoopTexts \cup
    { DocumentText, BeginOptText, BeginXEndYText, BlankLinesText, UnmatchedText,
      FooSpaceGroupText, FooTwoGroupsText, FooTwoTriviaText,
      \* "\foo bar", "\foo,", "\foo=", "\foo$x$", "\foo\bar", "{\foo}", "(\foo)"
      <<"\\", "f", "o", "o", " ", "b", "a", "r">>,
      <<"\\", "f", "o", "o", ",">>,
      <<"\\", "f", "o", "o", "=">>,
      <<"\\", "f", "o", "o", "$", "x", "$">>,
      <<"\\", "f", "o", "o", "\\", "b", "a", "r">>,
      <<"{", "\\", "f", "o", "o", "}">>,
      <<"(", "\\", "f", "o", "o", ")">>,
      \* "% c\n(a|b)=,"
      <<"%", " ", "c", "\n", "(", "a", "|", "b", ")", "=", ",">> }

\* "a \cup b \cap c"
CupCapText ==
    <<"a", " ", "\\", "c", "u", "p", " ", "b", " ", "\\", "c", "a", "p", " ", "c">>

\* "2 + (2^e * 4)"
GroupingText == <<"2", " ", "+", " ", "(", "2", "^", "e", " ", "*", " ", "4", ")">>

\* "a*(b+c)" and "(1+a)*b"
GroupRightText == <<"a", "*", "(", "b", "+", "c", ")">>

GroupLeftText == <<"(", "1", "+", "a", ")", "*", "b">>

\* "a \in b" and "a+b\in c"
InText == <<"a", " ", "\\", "i", "n", " ", "b">>

PlusInText == <<"a", "+", "b", "\\", "i", "n", " ", "c">>

\* "1.5"
OnePointFiveText == <<"1", ".", "5">>

\* "42"
FortyTwoText == <<"4", "2">>

\* "x op1 y op2 z" for the one-character operators
PrattOps == {"+", "-", "*", "<", ">", "_", "^"}

PrattTexts == {<<"a", op1, "b", op2, "c">> : op1, op2 \in PrattOps}

MathScenarios ==
    PrematureMath \cup PrattTexts \cup
    { CupCapText, GroupingText, GroupRightText, GroupLeftText, FortyTwoText,
      InText, PlusInText, OnePointFiveText,
      \* "a+\"
      <<"a", "+", "\\">>,
      \* "[a]-{b}", "a<b>c_d", "//a", "a,b", "(a}"
      <<"[", "a", "]", "-", "{", "b", "}">>,
      <<"a", "<", "b", ">", "c", "_", "d">>,
      <<"/", "/", "a">>, <<"a", ",", "b">>, <<"(", "a", "}">> }

Inputs(g) ==
    IF g = "latex"
    THEN Strings(LatexVocab, MaxChunks) \cup LatexScenarios
    ELSE Strings(MathVocab, MaxChunks) \cup MathScenarios

------------------------------------------------------------------------------
(* The specification *)

Init ==
    /\ grammar \in {"latex", "math"}
    /\ source \in Inputs(grammar)
    /\ index = 0
    /\ offset = 0
    /\ tokens = <<>>
    /\ idx = 0
    /\ builder = NewBuilder
    /\ ctl = <<>>
    /\ status = "lexing"
    /\ exc = NoExc
    /\ ret = Null
    /\ root = Null

\* one turn of tokenize()'s loop
tokenize ==
    /\ status = "lexing"
    /\ LET r == nextToken(lexFns, source, index, offset) IN
       /\ index' = r.index
       /\ offset' = r.offset
       /\ exc' = r.exc
       /\ tokens' = IF r.exc.name = "none" /\ ~IsNull(r.token)
                    THEN Append(tokens, r.token)
                    ELSE tokens
       /\ status' = IF r.exc.name # "none" THEN "threw"
                    ELSE IF IsNull(r.token) THEN "tokenized"
                    ELSE "lexing"
    /\ UNCHANGED <<grammar, source, idx, builder, ctl, ret, root>>

\* new LatexParser(lexer) once lexer.tokenize() returned, then the call of parse()
NewLatexParser ==
    /\ status = "tokenized"
    /\ grammar = "latex"
    /\ builder' = NewBuilder
    /\ idx' = 0
    /\ ctl' = <<Frame("parse")>>
    /\ status' = "parsing"
    /\ UNCHANGED <<grammar, source, index, offset, tokens, exc, ret, root>>

\* new MathParser(lexer): the trivia tokens are filtered out
NewMathParser ==
    /\ status = "tokenized"
    /\ grammar = "math"
    /\ tokens' = SelectSeq(tokens, LAMBDA tok : ~isMathTrivia(tok.type))
    /\ builder' = NewBuilder
    /\ idx' = 0
    /\ ctl' = <<Frame("math_parse")>>
    /\ status' = "parsing"
    /\ UNCHANGED <<grammar, source, index, offset, exc, ret, root>>

Next ==
    \/ tokenize
    \/ NewLatexParser
    \/ NewMathParser
    \/ parse
    \/ parse_loop
    \/ curly_group
    \/ curly_loop
    \/ bracket_group
    \/ bracket_loop
    \/ mixed_group
    \/ mixed_loop
    \/ equation
    \/ equation_loop
    \/ formula
    \/ formula_loop
    \/ command
    \/ command_loop
    \/ begin
    \/ begin_bracket
    \/ end
    \/ environment
    \/ environment_loop
    \/ end_node_last
    \/ math_parse
    \/ expression
    \/ grouping_close
    \/ infix_loop
    \/ binop_close
    \/ math_parse_end

Spec == Init /\ [][Next]_vars

\* latex(): the LaTeX lexer and parser alone, on the strings of at most
\* LiveChunks chunks and on the texts that run every loop of the parser
LiveInputs == Strings(LatexVocab, LiveChunks) \cup LoopTexts

LiveInit == Init /\ grammar = "latex" /\ source \in LiveInputs

LatexNext ==
    \/ tokenize
    \/ NewLatexParser
    \/ parse
    \/ parse_loop
    \/ curly_group
    \/ curly_loop
    \/ bracket_group
    \/ bracket_loop
    \/ mixed_group
    \/ mixed_loop
    \/ equation
    \/ equation_loop
    \/ formula
    \/ formula_loop
    \/ command
    \/ command_loop
    \/ begin
    \/ begin_bracket
    \/ end
    \/ environment
    \/ environment_loop
    \/ end_node_last

\* the program keeps running while it can: lexer and parser are sequential
\* code that nothing suspends
LiveSpec == LiveInit /\ [][LatexNext]_vars /\ WF_vars(LatexNext)

------------------------------------------------------------------------------
(* Properties *)

\* the tokens of a tree, in order
RECURSIVE Leaves(_)
Leaves(node) ==
    IF isToken(node)
    THEN <<node>>
    ELSE Flatten([i \in 1..Len(node.children) |-> Leaves(node.children[i])])

\* the nodes of a tree, parents first
RECURSIVE AllNodes(_)
AllNodes(node) ==
    IF isToken(node)
    THEN <<>>
    ELSE <<node>> \o Flatten([i \in 1..Len(node.children) |-> AllNodes(node.children[i])])

Sources(toks) == Flatten([i \in 1..Len(toks) |-> toks[i].source])

Returned(g) == status = "returned" /\ grammar = g

\* C1: whenever LatexParser.parse() returns a tree, the tree's tokens are the
\* lexer's tokens, each once and in input order, and its text is the input.
C1_ParseLossless ==
    Returned("latex") => /\ Leaves(root) = tokens
                         /\ concatParseTree(root) = source

\* the demonstration document was parsed into a tree
C1_Witness == Returned("latex") /\ source = DocumentText /\ Len(AllNodes(root)) > 5

\* C2: when tokenize() returns, under either grammar, the returned tokens'
\* sources concatenate to source[0 .. index), which is the whole input when the
\* lexer consumed it all.
C2_LexLossless ==
    status = "tokenized" =>
        /\ Sources(tokens) = SubSeq(source, 1, index)
        /\ (index = Len(source) => Sources(tokens) = source)

\* a lex that stopped early after several tokens, and one that consumed everything
C2_Witness ==
    /\ status = "tokenized"
    /\ Len(tokens) >= 2
    /\ index < Len(source)

C2_WitnessFull ==
    /\ status = "tokenized"
    /\ Len(tokens) >= 3
    /\ index = Len(source)

\* C3: the offsets of the tokens tokenize() returns tile the input: the first
\* is 0 and each token ends where the next one starts.
C3_OffsetsTile ==
    status = "tokenized" =>
        /\ (tokens # <<>> => tokens[1].offset = 0)
        /\ \A k \in 1..(Len(tokens) - 1) :
              tokens[k].offset + Len(tokens[k].source) = tokens[k + 1].offset

\* a returned sequence where a Command, a Symbol and a regular-expression token meet
C3_Witness ==
    /\ status = "tokenized"
    /\ grammar = "math"
    /\ \E k \in 1..(Len(tokens) - 2) :
          /\ tokens[k].type = LT("Command")
          /\ tokens[k + 1].type = MT("Symbol")
          /\ tokens[k + 2].tokenData = NullData

\* the shape of a tree: kinds and token texts, without offsets
RECURSIVE Shape(_)
Shape(node) ==
    IF isToken(node)
    THEN [tok |-> node.source]
    ELSE [kind |-> node.kind,
          children |-> [i \in 1..Len(node.children) |-> Shape(node.children[i])]]

T(c) == [tok |-> <<c>>]

N(kind, children) == [kind |-> kind, children |-> children]

MathBinOp(l, op, r) == N(MK("BinOp"), <<l, op, r>>)

\* C4: "a \cup b \cap c" parses to Root[BinOp(BinOp(a, \cup, b), \cap, c)], and
\* the BinOp wrapper of the root's first child has op() = Intersection and
\* lhs().op() = Union.
C4_CupCapOps ==
    (Returned("math") /\ source = CupCapText) =>
        LET binop == NewBinOp(intoNode(root.children[1]).value).value IN
        /\ Shape(root) =
             N(MK("Root"),
               <<MathBinOp(MathBinOp(T("a"), [tok |-> <<"\\", "c", "u", "p">>], T("b")),
                           [tok |-> <<"\\", "c", "a", "p">>], T("c"))>>)
        /\ BinOp_op(binop) = IO("Intersection")
        /\ BinOp_op(BinOp_lhs(binop)) = IO("Union")

\* what the code does on that input: the shape is as claimed, both operators
\* are Times
C4_Code ==
    (Returned("math") /\ source = CupCapText) =>
        LET binop == NewBinOp(intoNode(root.children[1]).value).value IN
        /\ Shape(root) =
             N(MK("Root"),
               <<MathBinOp(MathBinOp(T("a"), [tok |-> <<"\\", "c", "u", "p">>], T("b")),
                           [tok |-> <<"\\", "c", "a", "p">>], T("c"))>>)
        /\ BinOp_op(binop) = IO("Times")
        /\ BinOp_op(BinOp_lhs(binop)) = IO("Times")

MathDelimiters ==
    {MT("LeftCurly"), MT("RightCurly"), MT("LeftBracket"), MT("RightBracket"),
     MT("LeftParen"), MT("RightParen")}

\* C5: in every tree MathParser.parse() returns, a Grouping node holds exactly
\* one child, the inner expression, no delimiter token is in the tree, and a
\* Grouping is the whole first child of Root or of another Grouping, or an
\* operand of a BinOp; the inner expression is parsed at precedence 0 whatever
\* surrounds it.  "2 + (2^e * 4)" gives
\* Root[BinOp(2, +, Grouping(BinOp(BinOp(2, ^, e), *, 4)))].
C5_Grouping ==
    Returned("math") =>
        /\ \A k \in 1..Len(Leaves(root)) : Leaves(root)[k].type \notin MathDelimiters
        /\ \A k \in 1..Len(AllNodes(root)) :
              LET node == AllNodes(root)[k] IN
              /\ node.kind = MK("Grouping") => Len(node.children) = 1
              /\ \A c \in 1..Len(node.children) :
                    (isNode(node.children[c]) /\ node.children[c].kind = MK("Grouping")) =>
                        \/ node.kind \in {MK("Root"), MK("Grouping")} /\ c = 1
                        \/ node.kind = MK("BinOp") /\ c \in {1, 3}
        /\ source = GroupingText =>
              Shape(root) =
                N(MK("Root"),
                  <<MathBinOp(T("2"), T("+"),
                              N(MK("Grouping"),
                                <<MathBinOp(MathBinOp(T("2"), T("^"), T("e")),
                                            T("*"), T("4"))>>))>>)
        /\ source = GroupRightText =>
              Shape(root) =
                N(MK("Root"),
                  <<MathBinOp(T("a"), T("*"),
                              N(MK("Grouping"), <<MathBinOp(T("b"), T("+"), T("c"))>>))>>)
        /\ source = GroupLeftText =>
              Shape(root) =
                N(MK("Root"),
                  <<MathBinOp(N(MK("Grouping"), <<MathBinOp(T("1"), T("+"), T("a"))>>),
                              T("*"), T("b"))>>)

C5_Witness ==
    /\ Returned("math")
    /\ source = GroupingText
    /\ \E k \in 1..Len(AllNodes(root)) : AllNodes(root)[k].kind = MK("Grouping")

\* C6: on an input that ends while a construct is open or a token is expected,
\* parse() does not return a tree and fails with a ParseError; no exception of
\* another kind leaves the parser once the token buffer is used up.
C6_PrematureEndIsParseError ==
    /\ ( /\ status \in {"returned", "threw"}
         /\ \/ grammar = "latex" /\ source \in PrematureLatex
            \/ grammar = "math" /\ source \in PrematureMath )
       => (status = "threw" /\ exc.name = "ParseError")
    /\ (status = "threw" /\ exc.name # "LexError" /\ idx >= Len(tokens))
       => exc.name = "ParseError"

\* what the code does on those inputs: reading a field of the null that peek()
\* returned throws a TypeError
C6_Code ==
    ( /\ status \in {"returned", "threw"}
      /\ \/ grammar = "latex" /\ source \in PrematureLatex
         \/ grammar = "math" /\ source \in PrematureMath )
    => (status = "threw" /\ exc.name = "TypeError")

\* C7: when command()'s loop meets a token that is neither trivia nor an
\* opening {, [ or (, the Command node is closed, no error is raised and the
\* token is left for the caller.
C7_CommandStopsQuietly ==
    [][ ( /\ At("command_loop")
          /\ hasNext(Cur)
          /\ peek(Cur).type \notin {LT("Whitespace"), LT("LineBreak"), LT("LineComment"),
                                    LT("LeftCurly"), LT("LeftBracket"), LT("LeftParen")} )
        => ( /\ status' = "parsing"
             /\ idx' = idx
             /\ builder' = close_node(Cur).builder
             /\ ctl' = Tail(ctl) ) ]_vars

\* what the code does there: ParseError("Unimplemented")
C7_Code ==
    [][ ( /\ At("command_loop")
          /\ hasNext(Cur)
          /\ peek(Cur).type \notin {LT("Whitespace"), LT("LineBreak"), LT("LineComment"),
                                    LT("LeftCurly"), LT("LeftBracket"), LT("LeftParen")} )
        => ( /\ status' = "threw"
             /\ exc'.name = "ParseError"
             /\ exc'.what = "Unimplemented" ) ]_vars

IsKind(e, kind) == isNode(e) /\ e.kind = kind

\* C8: a bracket group that directly follows the curly group of \begin is a
\* BracketGroup child of the Begin node: no Begin that ends with its CurlyGroup
\* is followed by a sibling group opened by "[", and "\begin{name}[opt]..."
\* gives Begin[\begin, CurlyGroup, BracketGroup].
C8_BeginHoldsBothGroups ==
    Returned("latex") =>
        /\ \A k \in 1..Len(AllNodes(root)) :
              LET E == AllNodes(root)[k] IN
              ( /\ E.kind = LK("Environment")
                /\ Len(E.children) >= 2
                /\ IsKind(E.children[1], LK("Begin"))
                /\ IsKind(E.children[1].children[Len(E.children[1].children)],
                          LK("CurlyGroup")) )
              => ~( /\ isNode(E.children[2])
                    /\ Leaves(E.children[2]) # <<>>
                    /\ Leaves(E.children[2])[1].type = LT("LeftBracket") )
        /\ source = BeginOptText =>
              LET Begin == root.children[1].children[1] IN
              /\ Len(Begin.children) = 3
              /\ isToken(Begin.children[1])
              /\ IsKind(Begin.children[2], LK("CurlyGroup"))
              /\ IsKind(Begin.children[3], LK("BracketGroup"))

\* what the code does on "\begin{name}[opt]\end{name}": the bracket part is a
\* MixedGroup of the Environment, after a Begin of two children
C8_Code ==
    (Returned("latex") /\ source = BeginOptText) =>
        LET E == root.children[1] IN
        /\ Len(E.children[1].children) = 2
        /\ IsKind(E.children[1].children[2], LK("CurlyGroup"))
        /\ IsKind(E.children[2], LK("MixedGroup"))

\* the first Word token of a token sequence, as name() would return it
FirstWord(toks) ==
    LET tok == findFirstToken(toks, LT("Word")) IN
    IF IsNull(tok) THEN Null ELSE Str(tok.source)

\* C9: for every Environment of a returned tree, begin().name() and
\* end().name() are the first Word token anywhere in the Begin and End node
\* (none only if the node holds no Word token): X and Y for
\* "\begin{X} a \end{Y}".
C9_Names ==
    Returned("latex") =>
        /\ \A k \in 1..Len(AllNodes(root)) :
              LET E == AllNodes(root)[k] IN
              E.kind = LK("Environment") =>
                  LET w == NewEnvironment(E).value IN
                  /\ name(Environment_begin(w)) = FirstWord(Leaves(Environment_begin(w).syntax))
                  /\ name(Environment_end(w)) = FirstWord(Leaves(Environment_end(w).syntax))
        /\ source = BeginXEndYText =>
              LET w == NewEnvironment(intoNode(root.children[1]).value).value IN
              /\ name(Environment_begin(w)) = Str(<<"X">>)
              /\ name(Environment_end(w)) = Str(<<"Y">>)

\* what the code does: name() looks at the direct children only, and the Word
\* of "{X}" is inside a Text node inside the CurlyGroup
C9_Code ==
    (Returned("latex") /\ source = BeginXEndYText) =>
        LET w == NewEnvironment(intoNode(root.children[1]).value).value IN
        /\ IsNull(name(Environment_begin(w)))
        /\ IsNull(name(Environment_end(w)))

\* "\nHello, world!\n\[1+1 = 2\]\n"
DocumentBody ==
    <<"\n", "H", "e", "l", "l", "o", ",", " ", "w", "o", "r", "l", "d", "!", "\n",
      "\\", "[", "1", "+", "1", " ", "=", " ", "2", "\\", "]", "\n">>

\* the offset just after the last token of a tree that has tokens
EndOffset(node) ==
    LET last == Leaves(node)[Len(Leaves(node))] IN last.offset + Len(last.source)

\* C10: for every Environment E of a returned tree, bodyText() is none iff E
\* has no Begin or no End child; otherwise it is the input between the end of
\* the Begin child and the start of the End child, and Begin's text, bodyText()
\* and End's text concatenate to E's text; without its Begin or its End
\* children it is none.  For the demonstration document it
\* is "\nHello, world!\n\[1+1 = 2\]\n".
C10_BodyText ==
    Returned("latex") =>
        /\ \A k \in 1..Len(AllNodes(root)) :
              LET E == AllNodes(root)[k]
                  w == NewEnvironment(E).value
                  b == findFirstNode(E.children, LK("Begin"))
                  e == findFirstNode(E.children, LK("End"))
              IN E.kind = LK("Environment") =>
                    /\ IsNull(bodyText(w)) <=> (IsNull(b) \/ IsNull(e))
                    /\ ~IsNull(bodyText(w)) =>
                          /\ concatParseTree(b) \o bodyText(w).str \o concatParseTree(e)
                               = concatParseTree(E)
                          /\ bodyText(w).str =
                               SubSeq(source, EndOffset(b) + 1, Leaves(e)[1].offset)
                    /\ IsNull(bodyText([w EXCEPT !.syntax.children =
                                            SelectSeq(@, LAMBDA c : ~IsKind(c, LK("End")))]))
                    /\ IsNull(bodyText([w EXCEPT !.syntax.children =
                                            SelectSeq(@, LAMBDA c : ~IsKind(c, LK("Begin")))]))
        /\ source = DocumentText =>
              bodyText(NewEnvironment(intoNode(root.children[1]).value).value)
                = Str(DocumentBody)

C10_Witness ==
    /\ Returned("latex")
    /\ source = DocumentText
    /\ bodyText(NewEnvironment(intoNode(root.children[1]).value).value) = Str(DocumentBody)

\* C11: for every Number token of the math lexer, value() of the Literal that
\* wraps it is the integer its digits denote; 42 for the source "42".
C11_LiteralValue ==
    grammar = "math" =>
        \A k \in 1..Len(tokens) :
            tokens[k].type = MT("Number") =>
                /\ NewLiteral(tokens[k]).exc = NoExc
                /\ Literal_value(NewLiteral(tokens[k]).value) = Num(Decimal(tokens[k].source))

\* what the code does: value() parses tokenData, which nextToken leaves null
\* for a Number token, and gives NaN
C11_Code ==
    grammar = "math" =>
        \A k \in 1..Len(tokens) :
            tokens[k].type = MT("Number") =>
                Literal_value(NewLiteral(tokens[k]).value) = NaN

\* what a node wrapper's constructor must do on a node, for the kind it declares
Gated(made, kind, node) ==
    IF node.kind # kind
    THEN made.exc.name = "AssertionError" /\ IsNull(made.value)
    ELSE made.exc = NoExc /\ made.value.syntax = node

\* C12: on every node of a returned tree (either grammar), new Begin, new End,
\* new Environment and new BinOp fail with an AssertionError when the node's
\* kind is not the wrapper's kind, and otherwise succeed with syntax being that
\* very node.
C12_KindGating ==
    status = "returned" =>
        \A k \in 1..Len(AllNodes(root)) :
            LET node == AllNodes(root)[k] IN
            /\ Gated(NewBegin(node), LK("Begin"), node)
            /\ Gated(NewEnd(node), LK("End"), node)
            /\ Gated(NewEnvironment(node), LK("Environment"), node)
            /\ Gated(NewBinOp(node), MK("BinOp"), node)

C12_Witness ==
    /\ Returned("latex")
    /\ \E k \in 1..Len(AllNodes(root)) :
          LET node == AllNodes(root)[k] IN
          /\ NewEnvironment(node).exc = NoExc
          /\ NewEnvironment(node).value.syntax = node
          /\ NewBegin(node).exc.name = "AssertionError"
          /\ NewBegin(node.children[1]).exc = NoExc
          /\ NewEnd(node.children[1]).exc.name = "AssertionError"

\* C13: new Literal succeeds only on a Number token and new Symbol only on a
\* Symbol token: on a token of another type, and on a node, each of them fails.
C13_TokenWrappersGated ==
    grammar = "math" =>
        /\ \A k \in 1..Len(tokens) :
              /\ tokens[k].type # MT("Number") => NewLiteral(tokens[k]).exc # NoExc
              /\ tokens[k].type # MT("Symbol") => NewSymbol(tokens[k]).exc # NoExc
        /\ status = "returned" =>
              /\ NewLiteral(root).exc # NoExc
              /\ NewSymbol(root).exc # NoExc

\* what the code does: the two constructors only refuse null
C13_Code ==
    grammar = "math" =>
        /\ \A k \in 1..Len(tokens) :
              /\ NewLiteral(tokens[k]) = Value([wrapper |-> "Literal", syntax |-> tokens[k]])
              /\ NewSymbol(tokens[k]) = Value([wrapper |-> "Symbol", syntax |-> tokens[k]])
        /\ status = "returned" =>
              /\ NewLiteral(root).exc = NoExc
              /\ NewSymbol(root).exc = NoExc

\* the positions of the "\n" characters among the first off characters
NewlinesBefore(src, off) == {i \in 1..off : src[i] = "\n"}

\* the offset at which the line of offset off starts
LineStart(src, off) ==
    IF NewlinesBefore(src, off) = {}
    THEN 0
    ELSE CHOOSE i \in NewlinesBefore(src, off) : \A j \in NewlinesBefore(src, off) : j <= i

\* C14: for 0 <= offset < |S|, getSourceLocation(offset) returns (r, c) with
\* r - 1 the number of "\n" in S[0..offset) and c - 1 the distance of offset
\* from the start of its line, so that character c of line r, a "\n" counted
\* with the line it ends, is S[offset]; for any other offset it throws and
\* returns no location.
C14_SourceLocation ==
    \A off \in (0 - 2)..(Len(source) + 2) :
        LET loc == getSourceLocation(source, off) IN
        IF 0 <= off /\ off < Len(source)
        THEN /\ loc.exc = NoExc
             /\ loc.row - 1 = Cardinality(NewlinesBefore(source, off))
             /\ loc.col - 1 = off - LineStart(source, off)
             /\ source[LineStart(source, off) + loc.col] = source[off + 1]
        ELSE /\ loc.exc.name = "LexError"
             /\ loc.row = 0 /\ loc.col = 0

\* "\[" of the demonstration document is at 3:1, the "\n" before it at 2:14
C14_Witness ==
    /\ source = DocumentText
    /\ status = "returned"
    /\ getSourceLocation(source, 30) = [row |-> 2, col |-> 14, exc |-> NoExc]
    /\ getSourceLocation(source, 31) = [row |-> 3, col |-> 1, exc |-> NoExc]
    /\ getSourceLocation(source, Len(source)).exc.name = "LexError"

\* the length of the longest run of ASCII letters of src from offset i on
LetterRun(src, i) ==
    CHOOSE n \in 0..(Len(src) - i) :
        /\ \A j \in 1..n : alphabetic(src[i + j])
        /\ (i + n < Len(src) => ~alphabetic(src[i + n + 1]))

\* C15: lexCommand at a backslash that is not the last character returns a
\* Command token that starts there: the backslash and the next character, with
\* that character as tokenData, when it is no ASCII letter; otherwise the
\* backslash and the longest run of letters after it, with the run as
\* tokenData; index and offset advance by the token's length.  Anywhere else
\* than at a backslash it returns no token and index and offset stay.
C15_CommandMatcher ==
    \A i \in 0..(Len(source) - 1) :
        LET r == lexCommand(source, i, i)
            n == LetterRun(source, i + 1)
        IN IF source[i + 1] # "\\"
           THEN r = LexResult(Null, i, i, NoExc)
           ELSE i + 1 < Len(source) =>
                  /\ r.exc = NoExc
                  /\ r.token.type = LT("Command")
                  /\ r.token.offset = i
                  /\ r.index = i + Len(r.token.source)
                  /\ r.offset = i + Len(r.token.source)
                  /\ IF ~alphabetic(source[i + 2])
                     THEN /\ r.token.source = SubSeq(source, i + 1, i + 2)
                          /\ r.token.tokenData = <<source[i + 2]>>
                     ELSE /\ r.token.source = SubSeq(source, i + 1, i + 1 + n)
                          /\ r.token.tokenData = SubSeq(source, i + 2, i + 1 + n)

\* the demonstration document: "\begin" at 0, "\[" at 31, no match at 1
C15_Witness ==
    /\ source = DocumentText
    /\ status = "returned"
    /\ tokens[1] = lexCommand(source, 0, 0).token
    /\ tokens[1].tokenData = <<"b", "e", "g", "i", "n">>
    /\ lexCommand(source, 31, 31).token.source = <<"\\", "[">>
    /\ lexCommand(source, 31, 31).index = 33
    /\ IsNull(lexCommand(source, 1, 1).token)

\* C16: when tokenize() stands on a backslash that is the last character of
\* the input, its next turn throws LexError "Unexpected EOF" with the offset
\* of the backslash; nothing follows a throw, so tokenize() returns no tokens
\* and the Parser constructor, which calls it, ends with the same LexError and
\* no parser.
C16_LoneBackslash ==
    [][ /\ ( /\ status = "lexing"
             /\ index + 1 = Len(source)
             /\ source[index + 1] = "\\" )
           => ( /\ status' = "threw"
                /\ exc' = Throw("LexError", "Unexpected EOF", offset, 0)
                /\ ctl' = <<>> /\ builder' = NewBuilder )
        /\ status = "threw" => FALSE ]_vars

\* the input that is a lone backslash
C16_Witness ==
    /\ source = <<"\\">>
    /\ grammar = "latex"
    /\ status = "threw"
    /\ exc = Throw("LexError", "Unexpected EOF", 0, 0)
    /\ tokens = <<>>

\* the same after tokens were produced, in the math grammar
C16_WitnessMath ==
    /\ grammar = "math"
    /\ status = "threw"
    /\ exc.name = "LexError"
    /\ Len(tokens) >= 2

Closers == {LT("RightCurly"), LT("RightParen"), LT("RightBracket")}

\* ParseError "Unmatched punctuation at r:c" for the token at offset off
Unmatched(off) ==
    Throw("ParseError", "Unmatched punctuation",
          Cardinality(NewlinesBefore(source, off)) + 1, off - LineStart(source, off) + 1)

\* C17: content() on a current token "}", ")" or "]" throws ParseError
\* "Unmatched punctuation at r:c" with (r, c) the 1-indexed line and column of
\* the token's offset and calls nothing; parse() ends with that error exactly
\* when a loop called content() on such a token; "}" fails at 1:1.
C17_UnmatchedPunctuation ==
    [][ /\ ( /\ status = "parsing"
             /\ grammar = "latex"
             /\ hasNext(Cur)
             /\ peek(Cur).type \in Closers )
           => content(Cur) = Calls(Raise(Cur, Unmatched(peek(Cur).offset)), <<>>)
        /\ ( /\ status' = "threw"
             /\ exc'.what = "Unmatched punctuation" )
           => ( /\ hasNext(Cur)
                /\ peek(Cur).type \in Closers
                /\ exc' = Unmatched(peek(Cur).offset)
                /\ Head(ctl).op \in {"parse_loop", "curly_loop", "bracket_loop", "mixed_loop",
                                     "equation_loop", "formula_loop", "environment_loop"} )
        /\ ( /\ source = <<"}">>
             /\ At("parse_loop") )
           => ( /\ status' = "threw"
                /\ exc' = Throw("ParseError", "Unmatched punctuation", 1, 1) ) ]_vars

C17_Witness ==
    /\ source = <<"}">>
    /\ status = "threw"
    /\ exc = Throw("ParseError", "Unmatched punctuation", 1, 1)

\* ")" inside a curly group on the second line
C17_WitnessSecondLine ==
    /\ source = UnmatchedText
    /\ status = "threw"
    /\ exc = Throw("ParseError", "Unmatched punctuation", 2, 2)

\* C18: when LatexParser.parse() or MathParser.parse() returns, as many
\* start_node calls as end_node calls were made (one for each node of the
\* tree), the builder's parent stack is empty and its children hold one item,
\* the Root node that was returned.
C18_BuilderBalance ==
    status = "returned" =>
        /\ builder.starts = builder.ends
        /\ builder.starts = Len(AllNodes(root))
        /\ builder.parents = <<>>
        /\ builder.children = <<root>>
        /\ root.kind = IF grammar = "latex" THEN LK("Root") ELSE MK("Root")

\* a math tree of several nodes
C18_Witness ==
    /\ Returned("math")
    /\ source = GroupingText
    /\ builder.starts = builder.ends
    /\ builder.ends >= 5

C18_WitnessLatex ==
    /\ Returned("latex")
    /\ source = DocumentText
    /\ builder.ends >= 5

\* C19: on a builder whose parent stack is empty, end_node() throws an
\* AssertionError and leaves the builder as it was, and finish() returns
\* children[0]; on a builder whose parent stack is not empty, finish() throws
\* an AssertionError.  finish() returns a value and no changed builder.
C19_BuilderMisuse ==
    IF builder.parents = <<>>
    THEN /\ end_node(builder).exc.name = "AssertionError"
         /\ end_node(builder).builder = builder
         /\ finish(builder).exc = NoExc
         /\ builder.children # <<>> => finish(builder).value = builder.children[1]
    ELSE /\ finish(builder).exc.name = "AssertionError"
         /\ IsNull(finish(builder).value)

\* after a parse returned: an extra end_node() fails, finish() gives the root
C19_Witness ==
    /\ status = "returned"
    /\ builder.parents = <<>>
    /\ end_node(builder).exc = Throw("AssertionError", "Unmatched end_node()", 0, 0)
    /\ finish(builder) = [value |-> root, exc |-> NoExc]

\* in the middle of a parse, three nodes open: finish() fails
C19_WitnessOpen ==
    /\ status = "parsing"
    /\ Len(builder.parents) >= 3
    /\ finish(builder).exc.name = "AssertionError"

\* C20: consume() with the cursor at the end of the token buffer fails and
\* appends nothing to the builder; elsewhere it appends tokens[idx] and moves
\* idx on by one.
C20_ConsumeAtEnd ==
    status = "parsing" =>
        IF idx >= Len(tokens)
        THEN /\ Threw(consume(Cur))
             /\ consume(Cur).builder = builder
        ELSE /\ ~Threw(consume(Cur))
             /\ consume(Cur).builder = push(builder, tokens[idx + 1])
             /\ consume(Cur).idx = idx + 1

\* what the code does at the end of the buffer: it appends the null that
\* peek() returned and moves idx on, without failing
C20_Code ==
    (status = "parsing" /\ idx >= Len(tokens)) =>
        /\ ~Threw(consume(Cur))
        /\ consume(Cur).builder.children = Append(builder.children, Null)
        /\ consume(Cur).idx = idx + 1

InToken == [tok |-> <<"\\", "i", "n">>]

\* C21: each of the ten infix operators the token-to-operator mapping can
\* return has a precedence pair; "a \in b" parses to BinOp(a, \in, b) whose
\* op() is In; \in binds like < and >, looser than +.
C21_InfixPrecedence ==
    /\ \A k \in 1..Len(InfixOp) : IO(InfixOp[k]) \in DOMAIN PRECEDENCE
    /\ (Returned("math") /\ source = InText) =>
          /\ Shape(root) = N(MK("Root"), <<MathBinOp(T("a"), InToken, T("b"))>>)
          /\ BinOp_op(NewBinOp(intoNode(root.children[1]).value).value) = IO("In")
    /\ (Returned("math") /\ source = PlusInText) =>
          Shape(root) =
            N(MK("Root"),
              <<MathBinOp(MathBinOp(T("a"), T("+"), T("b")), InToken, T("c"))>>)

\* what the code does: PRECEDENCE has no entry for In; the \in token carries
\* the type that is Asterick in the math grammar, so op() is Times and \in
\* binds tighter than +
C21_Code ==
    /\ DOMAIN PRECEDENCE = {IO(InfixOp[k]) : k \in 1..Len(InfixOp)} \ {IO("In")}
    /\ (status \in {"returned", "threw"} /\ grammar = "math" /\ source = InText) =>
          /\ status = "returned"
          /\ Shape(root) = N(MK("Root"), <<MathBinOp(T("a"), InToken, T("b"))>>)
          /\ BinOp_op(NewBinOp(intoNode(root.children[1]).value).value) = IO("Times")
    /\ (status \in {"returned", "threw"} /\ grammar = "math" /\ source = PlusInText) =>
          /\ status = "returned"
          /\ Shape(root) =
               N(MK("Root"),
                 <<MathBinOp(T("a"), T("+"), MathBinOp(T("b"), InToken, T("c")))>>)

\* no matcher of the table fns matches src at offset i
NoMatch(fns, src, i) ==
    \A k \in 1..Len(fns) :
        CASE fns[k].re = "lexCommand" -> lexCommand(src, i, i) = LexResult(Null, i, i, NoExc)
          [] fns[k].re = "lexSymbol" -> lexSymbol(src, i, i) = LexResult(Null, i, i, NoExc)
          [] OTHER -> RegexExec(fns[k], src, i) = -1

\* C22: at a position before the end of the source where no matcher matches,
\* nextToken() returns null and leaves index and offset, and tokenize() returns
\* the tokens it has, without an error; the math lexer on "1.5" returns the
\* one token Number "1" and stops with index 1.
C22_NoMatchStops ==
    [][ /\ ( /\ status = "lexing"
             /\ index < Len(source)
             /\ NoMatch(lexFns, source, index) )
           => ( /\ nextToken(lexFns, source, index, offset)
                     = LexResult(Null, index, offset, NoExc)
                /\ status' = "tokenized"
                /\ exc' = NoExc
                /\ index' = index
                /\ offset' = offset
                /\ tokens' = tokens )
        /\ ( /\ status = "tokenized"
             /\ grammar = "math"
             /\ source = OnePointFiveText )
           => ( /\ tokens = <<Token(MT("Number"), NullData, <<"1">>, 0)>>
                /\ index = 1 ) ]_vars

C22_Witness ==
    /\ status = "tokenized"
    /\ grammar = "math"
    /\ source = OnePointFiveText
    /\ index = 1
    /\ Len(tokens) = 1
    /\ NoMatch(lexFns, source, index)

\* the tokens are x op1 y op2 z: atoms and operators of the precedence table
IsPrattCase(toks) ==
    /\ Len(toks) = 5
    /\ \A k \in {1, 3, 5} : toks[k].type \in {MT("Number"), MT("Symbol")}
    /\ \A k \in {2, 4} : tokenToInfixOp(toks[k]) \in DOMAIN PRECEDENCE

C23_WitnessLeft ==
    /\ Returned("math")
    /\ source = <<"a", "-", "b", "-", "c">>
    /\ IsPrattCase(tokens)
    /\ isNode(root.children[1].children[1])

\* C24: a call of MathParser.expression() that returns leaves the builder's
\* parent stack and children as they were when the call began; what it parsed
\* is the value it returns.
C24_ExpressionFrame ==
    [][ ( /\ At("infix_loop")
          /\ status' = "parsing"
          /\ ctl' = Tail(ctl) )
        => ( /\ builder'.parents = Head(ctl).entry.parents
             /\ builder'.children = Head(ctl).entry.children
             /\ ret' = Head(ctl).lhs ) ]_vars

\* "2 + (2^e * 4)": the call for the right operand of + has returned the
\* Grouping node
C24_Witness ==
    /\ source = GroupingText
    /\ At("binop_close")
    /\ ~IsNull(ret)
    /\ IsKind(ret, MK("Grouping"))
    /\ Len(builder.children) = 2

OpensGroup(e) ==
    /\ isNode(e)
    /\ Leaves(e) # <<>>
    /\ Leaves(e)[1].type \in {LT("LeftCurly"), LT("LeftBracket"), LT("LeftParen")}

\* C25: a Command node takes all the trivia tokens after the command token
\* and the argument groups after that trivia: in a returned tree no Command
\* node is followed by a sibling that is a trivia token or a group, "\foo {x}"
\* is one Command[\foo, " ", CurlyGroup] and "\foo{a} [b]" is one Command that
\* holds both groups.
C25_CommandTrivia ==
    Returned("latex") =>
        /\ \A k \in 1..Len(AllNodes(root)) :
              LET node == AllNodes(root)[k] IN
              \A c \in 1..(Len(node.children) - 1) :
                  IsKind(node.children[c], LK("Command")) =>
                      /\ ~( /\ isToken(node.children[c + 1])
                            /\ isTrivia(node.children[c + 1].type) )
                      /\ ~OpensGroup(node.children[c + 1])
        /\ source = FooSpaceGroupText =>
              /\ Len(root.children) = 1
              /\ IsKind(root.children[1], LK("Command"))
              /\ Len(root.children[1].children) = 3
              /\ root.children[1].children[2].type = LT("Whitespace")
              /\ IsKind(root.children[1].children[3], LK("CurlyGroup"))
        /\ source = FooTwoGroupsText =>
              /\ Len(root.children) = 1
              /\ IsKind(root.children[1], LK("Command"))
              /\ \E i, j \in 1..Len(root.children[1].children) :
                    /\ i < j
                    /\ IsKind(root.children[1].children[i], LK("CurlyGroup"))
                    /\ OpensGroup(root.children[1].children[j])

\* what the code does: the loop of command() ends after one trivia token, so
\* the groups behind it, and further trivia, become siblings of the Command
C25_Code ==
    /\ (status \in {"returned", "threw"} /\ grammar = "latex" /\ source = FooSpaceGroupText) =>
          /\ status = "returned"
          /\ Len(root.children) = 2
          /\ IsKind(root.children[1], LK("Command"))
          /\ Len(root.children[1].children) = 2
          /\ IsKind(root.children[2], LK("CurlyGroup"))
    /\ (status \in {"returned", "threw"} /\ grammar = "latex" /\ source = FooTwoGroupsText) =>
          /\ status = "returned"
          /\ Len(root.children) = 2
          /\ Len(root.children[1].children) = 3
          /\ IsKind(root.children[2], LK("MixedGroup"))
    /\ (status \in {"returned", "threw"} /\ grammar = "latex" /\ source = FooTwoTriviaText) =>
          /\ status = "returned"
          /\ Len(root.children) = 3
          /\ Len(root.children[1].children) = 2
          /\ root.children[2].type = LT("LineBreak")
          /\ IsKind(root.children[3], LK("CurlyGroup"))

\* C26: in every returned LaTeX tree the first child of a Begin node is the
\* \begin command token and the first child of an End node is the \end command
\* token, whether the environment's loop stopped on \end or on "}".
C26_BeginEndFirstChild ==
    Returned("latex") =>
        \A k \in 1..Len(AllNodes(root)) :
            LET node == AllNodes(root)[k] IN
            /\ node.kind = LK("Begin") =>
                  /\ node.children # <<>>
                  /\ isToken(node.children[1])
                  /\ isCommand(node.children[1], <<"b", "e", "g", "i", "n">>)
            /\ node.kind = LK("End") =>
                  /\ node.children # <<>>
                  /\ isToken(node.children[1])
                  /\ isCommand(node.children[1], <<"e", "n", "d">>)

\* what the code does on "\begin}a": the loop stops on "}", end() consumes it
\* as the first child of End; the Begin half of the claim holds
C26_Code ==
    /\ (status \in {"returned", "threw"} /\ grammar = "latex"
          /\ source = <<"\\", "b", "e", "g", "i", "n", "}", "a">>) =>
          /\ status = "returned"
          /\ IsKind(root.children[1].children[2], LK("End"))
          /\ root.children[1].children[2].children
               = <<Token(LT("RightCurly"), NullData, <<"}">>, 6)>>
    /\ Returned("latex") =>
          \A k \in 1..Len(AllNodes(root)) :
              LET node == AllNodes(root)[k] IN
              node.kind = LK("Begin") =>
                  /\ node.children # <<>>
                  /\ isToken(node.children[1])
                  /\ isCommand(node.children[1], <<"b", "e", "g", "i", "n">>)

\* C27: for every tree returned by MathParser.parse, the in-order tokens of the
\* tree are the parser's (trivia-free) token sequence with the grouping
\* delimiters removed, in input order with strictly increasing offsets, and the
\* whole buffer has been consumed when parse returns.
C27_MathTokenOrder ==
    Returned("math") =>
        /\ Leaves(root) = SelectSeq(tokens, LAMBDA tok : tok.type \notin MathDelimiters)
        /\ \A k \in 1..(Len(Leaves(root)) - 1) :
              Leaves(root)[k].offset < Leaves(root)[k + 1].offset
        /\ idx = Len(tokens)

\* what the code does: the tokens of the tree are an in-order subsequence of
\* the buffer (nothing duplicated or reordered), but expression() returns at
\* the first token that is not an infix operator and parse() returns without
\* looking at the rest: "aa" gives Root[a] with one of two tokens consumed
C27_Code ==
    /\ Returned("math") =>
          /\ idx <= Len(tokens)
          /\ Leaves(root) = SelectSeq(SubSeq(tokens, 1, idx),
                                      LAMBDA tok : tok.type \notin MathDelimiters)
          /\ \A k \in 1..(Len(Leaves(root)) - 1) :
                Leaves(root)[k].offset < Leaves(root)[k + 1].offset
    /\ (status \in {"returned", "threw"} /\ grammar = "math" /\ source = <<"a", "a">>) =>
          /\ status = "returned"
          /\ Len(tokens) = 2
          /\ idx = 1
          /\ Shape(root) = N(MK("Root"), <<T("a")>>)

\* the token leaves of an item of pending_children, in order (a null pushed by
\* consume() at the end of the input is not a token)
RECURSIVE PushedLeaves(_)
PushedLeaves(item) ==
    IF IsNull(item) THEN <<>>
    ELSE IF isToken(item) THEN <<item>>
    ELSE Flatten([i \in 1..Len(item.children) |-> PushedLeaves(item.children[i])])

PendingLeaves(b) == Flatten([i \in 1..Len(b.children) |-> PushedLeaves(b.children[i])])

\* the items the LaTeX parser pushes in a step that moves idx from i to j
PushedBetween(i, j) ==
    [k \in 1..(j - i) |-> IF i + k <= Len(tokens) THEN tokens[i + k] ELSE Null]

\* the builder is driven by start_node / push / end_node alone
ZipperState ==
    /\ \A k \in 1..Len(builder.parents) :
          /\ builder.parents[k].child_idx <= Len(builder.children)
          /\ k > 1 => builder.parents[k - 1].child_idx <= builder.parents[k].child_idx
    /\ grammar = "latex" =>
          PendingLeaves(builder) =
            SubSeq(tokens, 1, IF idx <= Len(tokens) THEN idx ELSE Len(tokens))

\* a step of the LaTeX parser that closes one node and opens none
ZipperClose ==
    ( /\ grammar = "latex"
      /\ builder'.ends = builder.ends + 1
      /\ builder'.starts = builder.starts ) =>
        LET top   == builder.parents[Len(builder.parents)]
            saved == top.child_idx
            items == SubSeq(builder.children, saved + 1, Len(builder.children))
                       \o PushedBetween(idx, idx')
        IN /\ builder.parents # <<>>
           /\ builder'.parents = SubSeq(builder.parents, 1, Len(builder.parents) - 1)
           /\ Len(builder'.children) = saved + 1
           /\ builder'.children =
                Append(SubSeq(builder.children, 1, saved), Node(top.node.kind, items))

\* C28: builder zipper invariant. The saved lengths on the parent stack are
\* non-decreasing from bottom to top and each is at most |pending_children|;
\* the in-order token leaves of pending_children are the tokens pushed so far;
\* each end_node gives the closed node exactly the items appended since its
\* matching start_node, in order, and leaves |pending_children| = saved_len + 1.
C28_BuilderZipper == [](ZipperState) /\ [][ZipperClose]_vars

\* an inner node has just been closed inside two open ones, after items were
\* pushed before and inside it
C28_Witness ==
    /\ grammar = "latex"
    /\ status = "parsing"
    /\ Len(builder.parents) >= 2
    /\ builder.ends >= 1
    /\ builder.parents[Len(builder.parents)].child_idx >= 1
    /\ Len(builder.children) >= builder.parents[Len(builder.parents)].child_idx + 2
    /\ isNode(builder.children[Len(builder.children)])
    /\ builder.children[Len(builder.children)].children # <<>>

\* one character of every class the LaTeX matchers distinguish, and some that
\* only the Word matcher takes
LatexAlphabet ==
    SpaceChars \cup WordExcluded \cup {"a", "Z", "0", "+", "-", "*", "<", ".", "&", "_", "^", "/"}

\* the outcome of nextToken is a token that moves the cursor, or a LexError
Progresses(src, i, off) ==
    LET r == nextToken(LatexLexFns, src, i, off) IN
    \/ /\ r.exc.name = "LexError"
       /\ IsNull(r.token)
    \/ /\ r.exc = NoExc
       /\ ~IsNull(r.token)
       /\ r.token.source # <<>>
       /\ r.index = i + Len(r.token.source)
       /\ r.index <= Len(src)

\* at the first character, and at a second one behind it, for all characters
LatexTotal ==
    \A c, d \in LatexAlphabet :
        /\ Progresses(<<c>>, 0, 0)
        /\ Progresses(<<c, d>>, 0, 0)
        /\ Progresses(<<c, d>>, 1, 1)

\* C29: the LaTeX token grammar is total. At every cursor position before the
\* end of the source some matcher matches or the Command matcher throws, so
\* tokenize() either throws LexError or returns with the whole input consumed;
\* it never stops early on an unmatched character, and every token it returns
\* has a non-empty source.
C29_LatexLexTotal ==
    grammar = "latex" =>
        /\ LatexTotal
        /\ (status = "lexing" /\ index < Len(source)) => Progresses(source, index, offset)
        /\ status # "lexing" =>
              \/ status = "threw" /\ exc.name = "LexError" /\ index < Len(source)
              \/ index = Len(source)
        /\ \A k \in 1..Len(tokens) : tokens[k].source # <<>>

\* tokenize() returned on an input holding a command, a word and punctuation
C29_Witness ==
    /\ grammar = "latex"
    /\ status = "tokenized"
    /\ index = Len(source)
    /\ Len(tokens) >= 3
    /\ \E k \in 1..Len(tokens) : tokens[k].type = LT("Command")
    /\ \E k \in 1..Len(tokens) : tokens[k].type = LT("Word")
    /\ \E k \in 1..Len(tokens) : tokens[k].type = LT("LeftCurly")

\* tokenize() threw LexError before the end of the source
C29_WitnessThrow ==
    /\ grammar = "latex"
    /\ status = "threw"
    /\ exc.name = "LexError"
    /\ tokens # <<>>
    /\ index < Len(source)

\* the loops whose body is one call of content()
ContentLoops ==
    {"parse_loop", "curly_loop", "bracket_loop", "mixed_loop", "equation_loop",
     "formula_loop", "environment_loop"}

\* the methods content() calls, and begin(), which environment() calls first
ContentCallees == {"curly_group", "mixed_group", "formula", "equation", "command", "environment"}

Done == status \in {"returned", "threw"}

\* what a step of LatexParser does to idx, if it does not throw
ContentAdvances ==
    (grammar = "latex" /\ status = "parsing" /\ status' = "parsing") =>
        /\ idx' >= idx
        \* content() returned within the step
        /\ (Head(ctl).op \in ContentLoops /\ ctl' = ctl) => idx' > idx
        \* content() called a method: the method's first statements consume
        /\ (Head(ctl).op \in ContentLoops /\ ctl' # <<>> /\ Tail(ctl') = ctl) =>
              /\ Head(ctl').op \in ContentCallees
              /\ idx' = idx
        /\ Head(ctl).op \in (ContentCallees \ {"environment"}) => idx' > idx
        /\ Head(ctl).op = "environment" => Head(ctl').op = "begin"
        /\ Head(ctl).op = "begin" => idx' > idx

\* C30: LatexParser.parse() terminates on every token sequence, by returning a
\* tree or by throwing: a call of content() that returns normally has advanced
\* idx by at least one token, so every loop of parse, curly_group,
\* bracket_group, mixed_group, environment, formula and equation ends.
C30_ParseTerminates ==
    /\ (grammar = "latex" /\ status = "parsing") ~> Done
    /\ [][ContentAdvances]_vars

\* parse() returned a tree holding a formula and an environment, whose loops ended
C30_Witness ==
    /\ Returned("latex")
    /\ idx = Len(tokens)
    /\ \E k \in 1..Len(AllNodes(root)) : AllNodes(root)[k].kind = LK("Formula")

\* the formula loop, whose condition is always truthy, ended at the end of the
\* input by the TypeError of reading the type of a null token
C30_WitnessThrow ==
    /\ grammar = "latex"
    /\ status = "threw"
    /\ exc = TypeErrorOnNull
    /\ source = <<"$", "a">>
    /\ idx = Len(tokens)

====
